---- MODULE Spec2Model ----
(***************************************************************************)
(* Model of the resilient extraction pipeline of the scraper server        *)
(* (src/unnamed/part_001, the latest variant; the lifecycle code is the    *)
(* same, line for line, in the second server of src/unnamed/part_000).     *)
(*                                                                         *)
(* One action is one turn of the Node event loop: the callback of one      *)
(* external event (an HTTP request, a timer, an answer of the browser      *)
(* engine) together with every promise continuation it makes runnable,     *)
(* up to the next await on a timer or on the engine.                       *)
(*                                                                         *)
(* The browser engine (Playwright) is the environment.  It answers every   *)
(* call after an arbitrary delay, with success or with an error; a         *)
(* browser can crash at any time; the 'disconnected' event of a browser    *)
(* that crashed or was closed is delivered at an arbitrary later turn.     *)
(* Timers are not measured: a deadline may fire whenever the operation it  *)
(* guards is still pending.                                                *)
(***************************************************************************)
EXTENDS Integers, Sequences, FiniteSets, TLC

\* ---------------------------------------------------------------- bounds
MaxBrowsers == 2        \* browser launches over the life of the process
MaxIdLen == 3           \* length of a raw ?isbn= value
MaxMs == 3              \* the ms argument of a followed withDeadline call, in ticks
MaxClock == 4           \* how long such a call is followed, in ticks
MaxTextLen == 3         \* length of the text of a page element
MaxBlocks == 2          \* JSON-LD script blocks on a page
MaxEntries == 2         \* properties of an object, items of an array
MaxFieldLen == 2        \* length of a field's text in the DOM and in the structured data
MaxCandidates == 2      \* "Published" entries on a detail page
MaxTimeoutLen == 5      \* length of a raw ?timeout= value

\* ------------------------------------------------------ program constants
MaxAttempts == 2        \* for (let attempt = 1; attempt <= 2; attempt++)
LastAttempt == 2        \* if (attempt === 2) throw err;
LaunchTimeoutMs == 20000    \* getBrowser({ timeoutMs = 20000 } = {})
NavTimeoutMs == 18000       \* page.setDefaultNavigationTimeout(18000)
ResultLinkTimeoutMs == 10000    \* first.waitFor({ state: 'visible', timeout: 10000 })
HydrationTimeoutMs == 8000  \* page.waitForSelector(..., { timeout: 8000 })
FieldTimeoutMs == 6000      \* getText(..., 6000), the longest per-field query
DefaultTimeoutMs == 45000   \* parseInt(req.query.timeout || '45000', 10) || 45000
MinTimeoutMs == 15000       \* Math.max(15000, ...)
MaxTimeoutMs == 60000       \* Math.min(60000, ...)
GraceMs == 500              \* await Promise.race([openDetails, delay(500)])
WarmupTimeoutMs == 20000    \* withDeadline(..., 20000, 'warmup')
PauseMs == 250              \* await page.waitForTimeout(250)
DetailLabels == 5           \* const labels = [ ...five patterns... ]

Requests == {1, 2}      \* the /scrape requests of a run
Browsers == 1..MaxBrowsers

\* ------------------------------------------------------------ identifiers
\* A text is a sequence of characters; the two classes that matter to
\* String.prototype.trim are white space and everything else.
Chars == {" ", "9"}
WhiteSpace == {" ", "\n"}       \* what \s matches and trim removes
Absent == <<"undefined">>       \* req.query.isbn when the parameter is missing
Null == <<"null">>              \* a value the page did not give
Texts == UNION {[1..k -> Chars] : k \in 0..MaxIdLen}
RawInputs == {Absent} \cup Texts
\* The raw values the two-request specification draws from: a blank one and
\* one that carries surrounding white space.
MainInputs == {<<" ">>, <<" ", "9">>}

\* String(req.query.isbn || '')
ToStr(q) == IF q = Absent THEN <<>> ELSE q

RECURSIVE TrimLeft(_)
TrimLeft(s) == IF s # <<>> /\ Head(s) \in WhiteSpace THEN TrimLeft(Tail(s)) ELSE s

RECURSIVE TrimRight(_)
TrimRight(s) ==
    IF s # <<>> /\ s[Len(s)] \in WhiteSpace THEN TrimRight(SubSeq(s, 1, Len(s) - 1)) ELSE s

\* String.prototype.trim
Trim(s) == TrimRight(TrimLeft(s))

\* const isbn = String(req.query.isbn || '').trim();
ParseIsbn_NoTrim(q) == ToStr(q)

ParseIsbn(q) == Trim(ToStr(q))

\* ------------------------------------------------------------- numbers
RECURSIVE Pow10(_)
Pow10(k) == IF k = 0 THEN 1 ELSE 10 * Pow10(k - 1)

\* A JavaScript number, as far as this program goes: NaN, or a decimal value
\* held as a sign and a count of units of 1/Scale; and undefined, which is
\* what a field holds in place of a number.
ScaleDigits == 4
Scale == Pow10(ScaleDigits)
NaN == [kind |-> "NaN", neg |-> FALSE, c |-> 0]
Undefined == [kind |-> "undefined", neg |-> FALSE, c |-> 0]
Num(neg, c) == [kind |-> "number", neg |-> neg, c |-> c]
IntNum(n) == Num(n < 0, Scale * (IF n < 0 THEN 0 - n ELSE n))
Value(x) == IF x.neg THEN 0 - x.c ELSE x.c      \* in units of 1/Scale

Digits == {"0", "1", "2", "3", "4", "5", "6", "7", "8", "9"}
DigitVal ==
    "0" :> 0 @@ "1" :> 1 @@ "2" :> 2 @@ "3" :> 3 @@ "4" :> 4 @@
    "5" :> 5 @@ "6" :> 6 @@ "7" :> 7 @@ "8" :> 8 @@ "9" :> 9

\* The longest prefix of s made of digits, and what follows it.
RECURSIVE DigitPrefix(_)
DigitPrefix(s) ==
    IF s # <<>> /\ Head(s) \in Digits THEN <<Head(s)>> \o DigitPrefix(Tail(s)) ELSE <<>>

RECURSIVE DigitsValue(_)
DigitsValue(d) ==
    IF d = <<>> THEN 0 ELSE 10 * DigitsValue(SubSeq(d, 1, Len(d) - 1)) + DigitVal[d[Len(d)]]

\* parseInt(s, 10): leading white space, an optional sign, then the longest
\* run of digits; NaN when there is no digit there.
ParseInt(s) ==
    LET t == TrimLeft(s)
        signed == t # <<>> /\ Head(t) \in {"-", "+"}
        u == IF signed THEN Tail(t) ELSE t
        d == DigitPrefix(u)
    IN  IF d = <<>> THEN NaN
        ELSE IntNum(IF signed /\ Head(t) = "-" THEN 0 - DigitsValue(d) ELSE DigitsValue(d))

\* parseFloat(s): leading white space, an optional sign, digits, and a point
\* with digits after it; NaN when no digit is there.  null reads as "null".
ParseFloat(s) ==
    IF s = Null THEN NaN
    ELSE
    LET t == TrimLeft(s)
        signed == t # <<>> /\ Head(t) \in {"-", "+"}
        u == IF signed THEN Tail(t) ELSE t
        ip == DigitPrefix(u)
        rest == SubSeq(u, Len(ip) + 1, Len(u))
        fp == IF rest # <<>> /\ Head(rest) = "." THEN DigitPrefix(Tail(rest)) ELSE <<>>
    IN  IF ip = <<>> /\ fp = <<>> THEN NaN
        ELSE Num(signed /\ Head(t) = "-",
                 Scale * DigitsValue(ip) + DigitsValue(fp) * Pow10(ScaleDigits - Len(fp)))

\* x || y on numbers: NaN and 0 are falsy.
OrNum_NaNOnly(x, y) == IF x = NaN THEN y ELSE x

OrNum(x, y) == IF x = NaN \/ x.c = 0 THEN y ELSE x

MaxOf(a, b) == IF a >= b THEN a ELSE b
MinOf(a, b) == IF a <= b THEN a ELSE b

\* Math.max(15000, Math.min(60000, parseInt(req.query.timeout || '45000', 10) || 45000)),
\* in ms.  q is Absent when the parameter is missing.
ParseTimeout(q) ==
    LET text == IF q = Absent \/ q = <<>> THEN <<"4", "5", "0", "0", "0">> ELSE q
        n == OrNum(ParseInt(text), IntNum(DefaultTimeoutMs))
    IN  MaxOf(MinTimeoutMs, MinOf(MaxTimeoutMs, Value(n) \div Scale))

\* The raw ?timeout= values of the one-request specification.
TimeoutInputs ==
    { Absent, <<>>, <<"0">>, <<"x">>, <<"-", "1">>,
      <<"1", "5", "0", "0", "0">>, <<"1", "9", "0", "0", "0">>,
      <<"2", "0", "0", "0", "1">>, <<"6", "0", "0", "0", "1">> }

\* The requests of the one-request specification: every raw identifier with
\* the default deadline, and one identifier with every raw deadline.
InputPairs == (RawInputs \X {Absent}) \cup ({<<"9">>} \X TimeoutInputs)

\* ------------------------------------------------------------- errors
\* new Error(`${label} timed out after ${ms}ms`)
TimeoutError(label, ms) == [what |-> "timed out", label |-> label, ms |-> ms]
\* Any other error, with its message.
Error(msg) == [what |-> msg, label |-> "", ms |-> 0]

\* ------------------------------------------------------------- the record
\* What the query of one field on the detail page comes to: a text, a text
\* of white space only, no such element, or the query's own timeout.
QueryOutcomes == {"text", "blank", "missing", "timeout"}
\* The structured data of the page: a Book object with a name, or none.
LdOutcomes == {"name", "none"}
FieldOutcomes == QueryOutcomes \X LdOutcomes
\* The page of the two-request specification: every element is there.
MainOutcomes == {<<"text", "none">>}
NoPage == <<"none", "none">>

\* getText(locator, ms): textContent(...).then(clean).catch(() => null), with
\* the text reduced to where it comes from.
GetText(q) ==
    CASE q = "text" -> <<"dom">>
      [] q = "blank" -> <<>>
      [] OTHER -> Null

\* getText(...).then(v => v || clean(ldBook?.name)), then title: title || null
Title(o) ==
    LET v == GetText(o[1])
        w == IF v \notin {Null, <<>>} THEN v
             ELSE IF o[2] = "name" THEN <<"ld">> ELSE Null
    IN  IF w \in {Null, <<>>} THEN Null ELSE w

\* The record runScrape assembles.  Of its fields the identifier and the
\* title are modelled; att tags the record with the attempt that assembled it.
Assemble(id, a, t) == [isbn |-> id, att |-> a, title |-> t]
NoRec == [isbn |-> <<>>, att |-> 0, title |-> Null]

\* ------------------------------------------------------------- responses
NoBody == [kind |-> "none", data |-> NoRec, error |-> Error("")]
\* res.json(data)
RecordBody(data) == [kind |-> "record", data |-> data, error |-> Error("")]
\* res.status(...).json({ error: String(e?.message || e) })
ErrorBody(e) == [kind |-> "error", data |-> NoRec, error |-> e]

VARIABLES
    browserRef,     \* let browserRef = null: 0, or the shared browser handle
    launching,      \* let launching = null: 0, or the launch the latch holds
    bstate,         \* engine: browser -> "none" | "launching" | "alive" | "dead" | "failed"
    nextB,          \* engine: the next browser the engine launches
    sig,            \* engine: browsers whose 'disconnected' event is still to be delivered
    openCtx,        \* engine: the open page contexts, [r, att, b]
    warmed,         \* the listen callback has run
    raw,            \* request -> the raw query value
    isbn,           \* request -> the parsed identifier
    pc,             \* request -> where its runScrape is suspended
    attempt,        \* request -> the loop variable of runScrape (0 before the call)
    ph,             \* request -> "try" | "fb" inside newContextSafe, else "none"
    h,              \* request -> the browser (or launch) it awaits or uses
    out,            \* request -> how runScrape settled: "pending" | "ok" | "err"
    page,           \* request -> the detail page its attempt has reached
    rec,            \* request -> the record assembled / returned
    resp,           \* request -> the HTTP response sent: "none" | "200" | "400" |
                    \*            "500 error" (runScrape threw) | "500 timeout" (deadline)
    body,           \* request -> the body sent with that response
    timeout,        \* request -> the overall deadline of the route, in ms
    fails,          \* history: request -> attempts that ended in the catch block
    firstB,         \* history: request -> browser of the context of attempt 1
    fbL,            \* history: request -> launches it started in the fallback of
                    \*          its current newContextSafe call
    poison,         \* history: request -> the shared handle whose newContext failed
    mode,           \* history: "seq" while the engine has reported no failure and no
                    \*          crash and the requests came one after the other, "conc"
                    \*          once two requests were in flight together, "faulty"
                    \*          from the first engine failure on
    scn,            \* history: the disconnect-between-two-calls scenario
    race,           \* one call of withDeadline, followed on a clock
    input,          \* the argument of a pure function of the extraction
    output          \* what the function returned for it

engineVars == <<bstate, nextB, sig, openCtx>>
sharedVars == <<browserRef, launching, warmed>>
reqVars == <<raw, timeout, isbn, pc, attempt, ph, h, out, page, rec, resp, body>>
histVars == <<fails, firstB, fbL, poison, mode, scn>>
serverVars == <<engineVars, sharedVars, reqVars, histVars>>
fnVars == <<race, input, output>>
vars == <<serverVars, fnVars>>

Active(r) == pc[r] \notin {"idle", "rejected", "settled"}
Quiet == (\A r \in Requests : ~Active(r)) /\ launching = 0

NoScn == [st |-> "none", r |-> 0, l |-> 0]
\* An event that is not part of the undisturbed scenario ends it.
Disturb(s) == NoScn

\* The server after construction, before the listen callback.
InitServer ==
    /\ browserRef = 0
    /\ launching = 0
    /\ bstate = [b \in Browsers |-> "none"]
    /\ nextB = 1
    /\ sig = {}
    /\ openCtx = {}
    /\ warmed = FALSE
    /\ raw = [r \in Requests |-> <<>>]
    /\ isbn = [r \in Requests |-> <<>>]
    /\ pc = [r \in Requests |-> "idle"]
    /\ attempt = [r \in Requests |-> 0]
    /\ ph = [r \in Requests |-> "none"]
    /\ h = [r \in Requests |-> 0]
    /\ out = [r \in Requests |-> "pending"]
    /\ page = [r \in Requests |-> NoPage]
    /\ rec = [r \in Requests |-> NoRec]
    /\ resp = [r \in Requests |-> "none"]
    /\ body = [r \in Requests |-> NoBody]
    /\ timeout = [r \in Requests |-> 0]
    /\ fails = [r \in Requests |-> 0]
    /\ firstB = [r \in Requests |-> 0]
    /\ fbL = [r \in Requests |-> 0]
    /\ poison = [r \in Requests |-> 0]
    /\ mode = "seq"
    /\ scn = NoScn

NoRace == [st |-> "none"]
Unset == <<"unset">>
NoOutput == [fn |-> "none"]

\* No function call is being followed.
InitFn ==
    /\ race = NoRace
    /\ input = Unset
    /\ output = NoOutput

Init == InitServer /\ InitFn

\* ------------------------------------------------------------ the engine
\* browser.close() on b: the process goes away with its contexts, and its
\* 'disconnected' event is queued for the handler of launchBrowserOnce.
KillState(b) == [bstate EXCEPT ![b] = "dead"]
KillSig(b) == IF bstate[b] = "alive" THEN sig \cup {b} ELSE sig
KillCtx(cs, b) == {c \in cs : c.b # b}

OwnCtx(p) == {c \in openCtx : c.r = p /\ c.att = attempt[p]}

\* ------------------------------------------------- the session lifecycle
\* getBrowser, up to its await: the handle it returns at once, the launch
\* it starts, or the in-flight launch it joins.
GB_NoLatch(ref) ==
    IF ref # 0 THEN [kind |-> "have", b |-> ref]
    ELSE [kind |-> "launch", b |-> nextB]

GB(ref) ==
    IF ref # 0 THEN [kind |-> "have", b |-> ref]
    ELSE IF launching = 0 THEN [kind |-> "launch", b |-> nextB]
    ELSE [kind |-> "join", b |-> launching]

\* await getBrowser() by request p in phase phase of newContextSafe, with
\* ref the value of browserRef at the call; when the handle is there the
\* call goes on to browser.newContext().
Acquire(p, ref, phase) ==
    LET g == GB(ref) IN
    /\ g.kind = "launch" => nextB <= MaxBrowsers
    /\ launching' = IF g.kind = "launch" THEN g.b ELSE launching
    /\ bstate' = IF g.kind = "launch" THEN [bstate EXCEPT ![g.b] = "launching"] ELSE bstate
    /\ nextB' = IF g.kind = "launch" THEN nextB + 1 ELSE nextB
    /\ pc' = [pc EXCEPT ![p] = IF g.kind = "have" THEN "awaitCtx" ELSE "awaitLaunch"]
    /\ h' = [h EXCEPT ![p] = g.b]
    /\ ph' = [ph EXCEPT ![p] = phase]
    /\ fbL' = [fbL EXCEPT ![p] =
                 IF phase = "try" THEN 0
                 ELSE IF g.kind = "launch" THEN fbL[p] + 1 ELSE fbL[p]]

\* app.listen(..., async () => { await withDeadline(getBrowser(), 20000, ...) })
\* Its result is only logged.
WarmLaunch ==
    /\ ~warmed
    /\ warmed' = TRUE
    /\ LET g == GB(browserRef) IN
       /\ g.kind = "launch" => nextB <= MaxBrowsers
       /\ launching' = IF g.kind = "launch" THEN g.b ELSE launching
       /\ bstate' = IF g.kind = "launch" THEN [bstate EXCEPT ![g.b] = "launching"] ELSE bstate
       /\ nextB' = IF g.kind = "launch" THEN nextB + 1 ELSE nextB
    /\ UNCHANGED <<browserRef, sig, openCtx, reqVars, histVars>>

\* runScrape's catch block decides: throw on the last attempt, else retry.
Rethrow_First(a) == a = 1

Rethrow_Third(a) == a = 3

Rethrow(a) == a = LastAttempt

\* for (...; attempt <= 2; ...)
LoopContinues(a) == a <= MaxAttempts

\* The catch block of runScrape after its context close has settled, with cs
\* the open contexts at that point and err the error it caught.
RetryOrThrow(p, cs, err) ==
    /\ fails' = [fails EXCEPT ![p] = @ + 1]
    /\ IF Rethrow(attempt[p])
       THEN /\ out' = [out EXCEPT ![p] = "err"]
            /\ pc' = [pc EXCEPT ![p] = "settled"]
            /\ resp' = [resp EXCEPT ![p] = IF @ = "none" THEN "500 error" ELSE @]
            /\ body' = [body EXCEPT ![p] = IF resp[p] = "none" THEN ErrorBody(err) ELSE @]
            /\ openCtx' = cs
            /\ firstB' = [firstB EXCEPT ![p] = 0]
            /\ UNCHANGED <<browserRef, bstate, sig>>
       ELSE IF browserRef # 0
       THEN /\ bstate' = KillState(browserRef)
            /\ sig' = KillSig(browserRef)
            /\ openCtx' = KillCtx(cs, browserRef)
            /\ pc' = [pc EXCEPT ![p] = "catchBrClose"]
            /\ UNCHANGED <<browserRef, out, resp, body, firstB>>
       ELSE /\ browserRef' = 0
            /\ pc' = [pc EXCEPT ![p] = "retryDelay"]
            /\ openCtx' = cs
            /\ UNCHANGED <<bstate, sig, out, resp, body, firstB>>

\* An attempt fails before it has a context: ctx is undefined in the catch.
FailNoCtx(p, err) ==
    /\ RetryOrThrow(p, openCtx, err)
    /\ h' = [h EXCEPT ![p] = 0]
    /\ ph' = [ph EXCEPT ![p] = "none"]
    /\ fbL' = [fbL EXCEPT ![p] = 0]
    /\ poison' = [poison EXCEPT ![p] = 0]
    /\ UNCHANGED <<launching, nextB, warmed, raw, timeout, isbn, attempt, page, rec>>

\* The catch block of newContextSafe, entered from its try block; failedOn is
\* the handle whose newContext() failed (0 when getBrowser() itself failed).
NewContextCatch(p, failedOn) ==
    IF browserRef # 0
    THEN /\ bstate' = KillState(browserRef)
         /\ sig' = KillSig(browserRef)
         /\ openCtx' = KillCtx(openCtx, browserRef)
         /\ pc' = [pc EXCEPT ![p] = "nscClose"]
         /\ ph' = [ph EXCEPT ![p] = "fb"]
         /\ h' = [h EXCEPT ![p] = 0]
         /\ poison' = [poison EXCEPT ![p] = IF failedOn = browserRef THEN failedOn ELSE 0]
         /\ UNCHANGED <<browserRef, launching, nextB, warmed, raw, timeout, isbn, attempt, out,
                        page, rec, resp, body, fails, firstB, fbL>>
    ELSE /\ browserRef' = 0
         /\ Acquire(p, 0, "fb")
         /\ poison' = [poison EXCEPT ![p] = 0]
         /\ UNCHANGED <<sig, openCtx, warmed, raw, timeout, isbn, attempt, out, page, rec, resp,
                        body, fails, firstB>>


\* ---------------------------------------------------------- the /scrape route
\* app.get('/scrape', ...): parse the identifier, answer 400 when it is
\* blank, else call runScrape, whose first attempt enters newContextSafe.
Receive_NoCheck(r, q, t) ==
    /\ pc[r] = "idle"
    /\ warmed
    /\ raw' = [raw EXCEPT ![r] = q]
    /\ timeout' = [timeout EXCEPT ![r] = ParseTimeout(t)]
    /\ isbn' = [isbn EXCEPT ![r] = ParseIsbn(q)]
    /\ attempt' = [attempt EXCEPT ![r] = 1]
    /\ Acquire(r, browserRef, "try")
    /\ poison' = [poison EXCEPT ![r] = 0]
    /\ mode' = IF mode = "seq" /\ \E r2 \in Requests \ {r} : Active(r2) THEN "conc" ELSE mode
    /\ scn' = IF scn.st = "armed" THEN [st |-> "run", r |-> r, l |-> nextB] ELSE Disturb(scn)
    /\ UNCHANGED <<browserRef, sig, openCtx, warmed, out, page, rec, resp, body, fails, firstB>>

Receive(r, q, t) ==
    /\ pc[r] = "idle"
    /\ warmed
    /\ raw' = [raw EXCEPT ![r] = q]
    /\ timeout' = [timeout EXCEPT ![r] = ParseTimeout(t)]
    /\ LET id == ParseIsbn(q) IN
       /\ isbn' = [isbn EXCEPT ![r] = id]
       /\ IF id = <<>>
          THEN /\ resp' = [resp EXCEPT ![r] = "400"]
               /\ body' = [body EXCEPT ![r] = ErrorBody(Error("Missing ?isbn="))]
               /\ pc' = [pc EXCEPT ![r] = "rejected"]
               /\ UNCHANGED <<engineVars, sharedVars, attempt, ph, h, out, page, rec, histVars>>
          ELSE /\ attempt' = [attempt EXCEPT ![r] = 1]
               /\ Acquire(r, browserRef, "try")
               /\ poison' = [poison EXCEPT ![r] = 0]
               /\ mode' = IF mode = "seq" /\ \E r2 \in Requests \ {r} : Active(r2) THEN "conc" ELSE mode
               /\ scn' = IF scn.st = "armed"
                         THEN [st |-> "run", r |-> r, l |-> nextB]
                         ELSE Disturb(scn)
               /\ UNCHANGED <<browserRef, sig, openCtx, warmed, out, page, rec, resp, body, fails,
                              firstB>>

\* withDeadline(runScrape(isbn), timeout, 'scrape'): the timer wins.  The
\* route answers 500; runScrape is not cancelled and runs on.
DeadlineExpire(r) ==
    /\ Active(r)
    /\ resp[r] = "none"
    /\ resp' = [resp EXCEPT ![r] = "500 timeout"]
    /\ body' = [body EXCEPT ![r] = ErrorBody(TimeoutError("scrape", timeout[r]))]
    /\ scn' = Disturb(scn)
    /\ UNCHANGED <<engineVars, sharedVars, raw, timeout, isbn, pc, attempt, ph, h, out, page, rec,
                   fails, firstB, fbL, poison, mode>>

\* ------------------------------------------------------- launch completion
\* chromium.launch() resolves: launchBrowserOnce registers the disconnect
\* handler, the finally block releases the latch, the then callback publishes
\* the handle, and every caller awaiting this launch goes on to newContext().
\* The finally block and the then callback are consecutive promise reactions
\* of the same turn; only the then callback waits on the inner promise, so no
\* other callback of this program runs between the two assignments.
LaunchSucceed_NoPublish(b) ==
    /\ bstate[b] = "launching"
    /\ bstate' = [bstate EXCEPT ![b] = "alive"]
    /\ launching' = 0
    /\ UNCHANGED browserRef
    /\ pc' = [r \in Requests |->
                IF pc[r] = "awaitLaunch" /\ h[r] = b THEN "awaitCtx" ELSE pc[r]]
    /\ UNCHANGED <<nextB, sig, openCtx, warmed, raw, timeout, isbn, attempt, ph, h, out, page,
                   rec, resp, body, histVars>>

LaunchSucceed(b) ==
    /\ bstate[b] = "launching"
    /\ bstate' = [bstate EXCEPT ![b] = "alive"]
    /\ launching' = 0
    /\ browserRef' = b
    /\ pc' = [r \in Requests |->
                IF pc[r] = "awaitLaunch" /\ h[r] = b THEN "awaitCtx" ELSE pc[r]]
    /\ UNCHANGED <<nextB, sig, openCtx, warmed, raw, timeout, isbn, attempt, ph, h, out, page,
                   rec, resp, body, histVars>>

\* chromium.launch() rejects: the latch is released, browserRef is set to
\* null, and every caller awaiting this launch sees the error.  A caller in
\* the try block of newContextSafe falls to its catch block and calls
\* getBrowser() again (the first of them starts the next launch, the others
\* join it); a caller in the catch block fails its attempt.
LaunchFail(b) ==
    /\ bstate[b] = "launching"
    /\ LET W == {r \in Requests : pc[r] = "awaitLaunch" /\ h[r] = b}
           T == {r \in W : ph[r] = "try"}
           F == W \ T
           relaunch == T # {}
       IN
       /\ relaunch => nextB <= MaxBrowsers
       /\ bstate' = IF relaunch
                    THEN [bstate EXCEPT ![b] = "failed", ![nextB] = "launching"]
                    ELSE [bstate EXCEPT ![b] = "failed"]
       /\ launching' = IF relaunch THEN nextB ELSE 0
       /\ nextB' = IF relaunch THEN nextB + 1 ELSE nextB
       /\ browserRef' = 0
       /\ pc' = [r \in Requests |->
                   IF r \in T THEN "awaitLaunch"
                   ELSE IF r \in F THEN (IF Rethrow(attempt[r]) THEN "settled" ELSE "retryDelay")
                   ELSE pc[r]]
       /\ h' = [r \in Requests |-> IF r \in T THEN nextB ELSE IF r \in F THEN 0 ELSE h[r]]
       /\ ph' = [r \in Requests |->
                   IF r \in T THEN "fb" ELSE IF r \in F THEN "none" ELSE ph[r]]
       /\ \E s \in (IF relaunch THEN T ELSE {0}) :
             fbL' = [r \in Requests |->
                       IF r = s THEN fbL[r] + 1 ELSE IF r \in F THEN 0 ELSE fbL[r]]
       /\ poison' = [r \in Requests |-> IF r \in W THEN 0 ELSE poison[r]]
       /\ firstB' = [r \in Requests |->
                       IF r \in F /\ Rethrow(attempt[r]) THEN 0 ELSE firstB[r]]
       /\ fails' = [r \in Requests |-> IF r \in F THEN fails[r] + 1 ELSE fails[r]]
       /\ out' = [r \in Requests |->
                    IF r \in F /\ Rethrow(attempt[r]) THEN "err" ELSE out[r]]
       /\ resp' = [r \in Requests |->
                     IF r \in F /\ Rethrow(attempt[r]) /\ resp[r] = "none"
                     THEN "500 error" ELSE resp[r]]
       /\ body' = [r \in Requests |->
                     IF r \in F /\ Rethrow(attempt[r]) /\ resp[r] = "none"
                     THEN ErrorBody(Error("launch")) ELSE body[r]]
    /\ mode' = "faulty"
    /\ scn' = Disturb(scn)
    /\ UNCHANGED <<sig, openCtx, warmed, raw, timeout, isbn, attempt, page, rec>>

\* withDeadline(launching, timeoutMs, 'Chromium launch'): the timer wins for
\* caller p.  The launch itself stays in flight and keeps the latch.
LaunchTimeout_Rejoin(p) ==
    /\ pc[p] = "awaitLaunch"
    /\ bstate[h[p]] = "launching"
    /\ NewContextCatch(p, 0)
    /\ scn' = Disturb(scn)
    /\ UNCHANGED mode

LaunchTimeout(p) ==
    /\ pc[p] = "awaitLaunch"
    /\ bstate[h[p]] = "launching"
    /\ IF ph[p] = "try"
       THEN NewContextCatch(p, 0)
       ELSE FailNoCtx(p, TimeoutError("Chromium launch", LaunchTimeoutMs))
    /\ scn' = Disturb(scn)
    /\ UNCHANGED mode

\* The await of browserRef.close() in the catch block of newContextSafe
\* settles (its error is swallowed): clear the reference, acquire again.
NscCloseSettled_Keep(p) ==
    /\ pc[p] = "nscClose"
    /\ UNCHANGED browserRef
    /\ Acquire(p, browserRef, "fb")
    /\ UNCHANGED <<sig, openCtx, warmed, raw, timeout, isbn, attempt, out, page, rec, resp, body,
                   fails, firstB, poison, mode, scn>>

NscCloseSettled(p) ==
    /\ pc[p] = "nscClose"
    /\ browserRef' = 0
    /\ Acquire(p, 0, "fb")
    /\ UNCHANGED <<sig, openCtx, warmed, raw, timeout, isbn, attempt, out, page, rec, resp, body,
                   fails, firstB, poison, mode, scn>>

\* browser.newContext() resolves.
CtxCreated(p) ==
    /\ pc[p] = "awaitCtx"
    /\ bstate[h[p]] = "alive"
    /\ openCtx' = openCtx \cup {[r |-> p, att |-> attempt[p], b |-> h[p]]}
    /\ pc' = [pc EXCEPT ![p] = "nav"]
    /\ ph' = [ph EXCEPT ![p] = "none"]
    /\ firstB' = IF attempt[p] = 1 THEN [firstB EXCEPT ![p] = h[p]] ELSE firstB
    /\ fbL' = [fbL EXCEPT ![p] = 0]
    /\ poison' = [poison EXCEPT ![p] = 0]
    /\ UNCHANGED <<bstate, nextB, sig, sharedVars, raw, timeout, isbn, attempt, h, out, page, rec,
                   resp, body, fails, mode, scn>>

\* browser.newContext() rejects.
CtxFail(p) ==
    /\ pc[p] = "awaitCtx"
    /\ IF ph[p] = "try" THEN NewContextCatch(p, h[p]) ELSE FailNoCtx(p, Error("newContext"))
    /\ mode' = "faulty"
    /\ scn' = Disturb(scn)


\* ------------------------------------------------------ one attempt's body
\* newPage, route, goto, the overlay click (best effort), the result link
\* and the hydration wait all succeed: the attempt is on a detail page, whose
\* title query will come to o[1] and whose structured data is o[2].
NavOk(p, o) ==
    /\ pc[p] = "nav"
    /\ OwnCtx(p) # {}
    /\ pc' = [pc EXCEPT ![p] = "extract"]
    /\ page' = [page EXCEPT ![p] = o]
    /\ UNCHANGED <<engineVars, sharedVars, raw, timeout, isbn, attempt, ph, h, out, rec, resp,
                   body, histVars>>

\* One of them throws (navigation timeout, missing result link, no
\* hydration marker, a dead browser): the catch block first awaits
\* ctx.close().
NavFail(p) ==
    /\ pc[p] = "nav"
    /\ pc' = [pc EXCEPT ![p] = "catchCtxClose"]
    /\ mode' = "faulty"
    /\ scn' = Disturb(scn)
    /\ UNCHANGED <<engineVars, sharedVars, raw, timeout, isbn, attempt, ph, h, out, page, rec,
                   resp, body, fails, firstB, fbL, poison>>

\* Field extraction and assembly.  Every query is caught and degrades to an
\* absent field, so this step cannot throw; it ends at await ctx.close().
ExtractDone_TitleRequired(p) ==
    /\ pc[p] = "extract"
    /\ IF Title(page[p]) = Null
       THEN pc' = [pc EXCEPT ![p] = "catchCtxClose"] /\ UNCHANGED rec
       ELSE /\ rec' = [rec EXCEPT ![p] = Assemble(isbn[p], attempt[p], Title(page[p]))]
            /\ pc' = [pc EXCEPT ![p] = "ctxClose"]
    /\ UNCHANGED <<engineVars, sharedVars, raw, timeout, isbn, attempt, ph, h, out, page, resp,
                   body, histVars>>

ExtractDone(p) ==
    /\ pc[p] = "extract"
    /\ rec' = [rec EXCEPT ![p] = Assemble(isbn[p], attempt[p], Title(page[p]))]
    /\ pc' = [pc EXCEPT ![p] = "ctxClose"]
    /\ UNCHANGED <<engineVars, sharedVars, raw, timeout, isbn, attempt, ph, h, out, page, resp,
                   body, histVars>>

\* await ctx.close() resolves; return result.  The route answers 200 unless
\* its deadline has already answered.
CtxCloseOk_SendAlways(p) ==
    /\ pc[p] = "ctxClose"
    /\ openCtx' = openCtx \ OwnCtx(p)
    /\ out' = [out EXCEPT ![p] = "ok"]
    /\ pc' = [pc EXCEPT ![p] = "settled"]
    /\ h' = [h EXCEPT ![p] = 0]
    /\ resp' = [resp EXCEPT ![p] = "200"]
    /\ body' = [body EXCEPT ![p] = RecordBody(rec[p])]
    /\ firstB' = [firstB EXCEPT ![p] = 0]
    /\ UNCHANGED <<bstate, nextB, sig, sharedVars, raw, timeout, isbn, attempt, ph, page, rec,
                   fails, fbL, poison, mode, scn>>

CtxCloseOk(p) ==
    /\ pc[p] = "ctxClose"
    /\ openCtx' = openCtx \ OwnCtx(p)
    /\ out' = [out EXCEPT ![p] = "ok"]
    /\ pc' = [pc EXCEPT ![p] = "settled"]
    /\ h' = [h EXCEPT ![p] = 0]
    /\ resp' = [resp EXCEPT ![p] = IF @ = "none" THEN "200" ELSE @]
    /\ body' = [body EXCEPT ![p] = IF resp[p] = "none" THEN RecordBody(rec[p]) ELSE @]
    /\ firstB' = [firstB EXCEPT ![p] = 0]
    /\ UNCHANGED <<bstate, nextB, sig, sharedVars, raw, timeout, isbn, attempt, ph, page, rec,
                   fails, fbL, poison, mode, scn>>

\* await ctx.close() rejects (the browser of the context is gone): the throw
\* lands in the catch block, which awaits ctx.close() once more.
CtxCloseFail(p) ==
    /\ pc[p] = "ctxClose"
    /\ OwnCtx(p) = {}
    /\ pc' = [pc EXCEPT ![p] = "catchCtxClose"]
    /\ mode' = "faulty"
    /\ scn' = Disturb(scn)
    /\ UNCHANGED <<engineVars, sharedVars, raw, timeout, isbn, attempt, ph, h, out, page, rec,
                   resp, body, fails, firstB, fbL, poison>>

\* try { if (ctx) await ctx.close(); } catch {} has settled; the catch block
\* goes on to throw or to invalidate the shared session.
CatchCtxCloseSettled_Leak(p) ==
    /\ pc[p] = "catchCtxClose"
    /\ RetryOrThrow(p, openCtx, Error("attempt"))
    /\ h' = [h EXCEPT ![p] = 0]
    /\ UNCHANGED <<launching, nextB, warmed, raw, timeout, isbn, attempt, ph, page, rec, fbL,
                   poison, mode, scn>>

CatchCtxCloseSettled(p) ==
    /\ pc[p] = "catchCtxClose"
    /\ RetryOrThrow(p, openCtx \ OwnCtx(p), Error("attempt"))
    /\ h' = [h EXCEPT ![p] = 0]
    /\ UNCHANGED <<launching, nextB, warmed, raw, timeout, isbn, attempt, ph, page, rec, fbL,
                   poison, mode, scn>>

\* try { if (browserRef) await browserRef.close(); } catch {} has settled:
\* browserRef = null; await delay(300).
CatchBrCloseSettled_Keep(p) ==
    /\ pc[p] = "catchBrClose"
    /\ pc' = [pc EXCEPT ![p] = "retryDelay"]
    /\ UNCHANGED <<engineVars, browserRef, launching, warmed, raw, timeout, isbn, attempt, ph, h,
                   out, page, rec, resp, body, histVars>>

CatchBrCloseSettled(p) ==
    /\ pc[p] = "catchBrClose"
    /\ browserRef' = 0
    /\ pc' = [pc EXCEPT ![p] = "retryDelay"]
    /\ UNCHANGED <<engineVars, launching, warmed, raw, timeout, isbn, attempt, ph, h, out, page,
                   rec, resp, body, histVars>>

\* The delay is over: attempt++, and the loop either starts the next attempt
\* or ends, in which case runScrape returns undefined.
RetryDelayDone(p) ==
    /\ pc[p] = "retryDelay"
    /\ attempt' = [attempt EXCEPT ![p] = @ + 1]
    /\ IF LoopContinues(attempt[p] + 1)
       THEN /\ Acquire(p, browserRef, "try")
            /\ poison' = [poison EXCEPT ![p] = 0]
            /\ UNCHANGED <<out, rec, resp, body>>
       ELSE /\ out' = [out EXCEPT ![p] = "ok"]
            /\ rec' = [rec EXCEPT ![p] = NoRec]
            /\ resp' = [resp EXCEPT ![p] = IF @ = "none" THEN "200" ELSE @]
            /\ body' = [body EXCEPT ![p] = IF resp[p] = "none" THEN RecordBody(NoRec) ELSE @]
            /\ pc' = [pc EXCEPT ![p] = "settled"]
            /\ UNCHANGED <<launching, bstate, nextB, h, ph, fbL, poison>>
    /\ firstB' = IF LoopContinues(attempt[p] + 1) THEN firstB ELSE [firstB EXCEPT ![p] = 0]
    /\ UNCHANGED <<browserRef, sig, openCtx, warmed, raw, timeout, isbn, page, fails, mode, scn>>

\* ------------------------------------------------------ engine events
\* A live browser crashes.
Crash(b) ==
    /\ bstate[b] = "alive"
    /\ bstate' = KillState(b)
    /\ sig' = sig \cup {b}
    /\ openCtx' = KillCtx(openCtx, b)
    /\ mode' = "faulty"
    /\ scn' = Disturb(scn)
    /\ UNCHANGED <<nextB, sharedVars, reqVars, fails, firstB, fbL, poison>>

\* browser.on('disconnected', () => { browserRef = null; }) runs for b.
Signal_Ignore(b) ==
    /\ b \in sig
    /\ sig' = sig \ {b}
    /\ scn' = IF Quiet /\ browserRef = b /\ \E r \in Requests : pc[r] = "settled"
              THEN [NoScn EXCEPT !.st = "armed"]
              ELSE Disturb(scn)
    /\ UNCHANGED <<bstate, nextB, openCtx, sharedVars, reqVars, fails, firstB, fbL, poison,
                   mode>>

Signal(b) ==
    /\ b \in sig
    /\ sig' = sig \ {b}
    /\ browserRef' = 0
    /\ scn' = IF Quiet /\ browserRef = b /\ \E r \in Requests : pc[r] = "settled"
              THEN [NoScn EXCEPT !.st = "armed"]
              ELSE Disturb(scn)
    /\ UNCHANGED <<bstate, nextB, openCtx, launching, warmed, reqVars, fails, firstB, fbL,
                   poison, mode>>

\* ------------------------------------------------------ specifications
Step(p) ==
    /\ UNCHANGED fnVars
    /\ \/ DeadlineExpire(p)
       \/ LaunchTimeout(p)
       \/ NscCloseSettled(p)
       \/ CtxCreated(p)
       \/ CtxFail(p)
       \/ \E o \in MainOutcomes : NavOk(p, o)
       \/ NavFail(p)
       \/ ExtractDone(p)
       \/ CtxCloseOk(p)
       \/ CtxCloseFail(p)
       \/ CatchCtxCloseSettled(p)
       \/ CatchBrCloseSettled(p)
       \/ RetryDelayDone(p)

Engine(b) ==
    /\ UNCHANGED fnVars
    /\ \/ LaunchSucceed(b)
       \/ LaunchFail(b)
       \/ Crash(b)
       \/ Signal(b)

\* Two requests, any interleaving.
Next ==
    \/ WarmLaunch /\ UNCHANGED fnVars
    \/ \E r \in Requests, q \in MainInputs : Receive(r, q, Absent) /\ UNCHANGED fnVars
    \/ \E p \in Requests : Step(p)
    \/ \E b \in Browsers : Engine(b)

Spec == Init /\ [][Next]_vars

\* One request, every raw query value and every page.
NextInput ==
    \/ WarmLaunch /\ UNCHANGED fnVars
    \/ \E rq \in InputPairs : Receive(1, rq[1], rq[2]) /\ UNCHANGED fnVars
    \/ Step(1)
    \/ \E o \in FieldOutcomes : NavOk(1, o) /\ UNCHANGED fnVars
    \/ \E b \in Browsers : Engine(b)

SpecInput == Init /\ [][NextInput]_vars


\* The same two requests, with every pending step of a request eventually
\* taken: the engine answers each call and each timer fires.
FairSpec == Spec /\ \A p \in Requests : WF_vars(Step(p))

\* ------------------------------------------------------ withDeadline
\* One call withDeadline(promise, ms, label), followed on a clock of ticks.
\* op is the promise passed in, fired says whether delay(ms) has resolved,
\* res is the promise the call returned.  The timer is taken to be on time:
\* it fires as the clock reaches ms.
Pending == [st |-> "pending", v |-> Error("")]
Fulfilled == [st |-> "value", v |-> Error("")]
Rejected(e) == [st |-> "error", v |-> e]
OpOutcomes == {Fulfilled, Rejected(Error("operation"))}
RaceLabels == {"scrape", "Chromium launch"}

InitDeadline ==
    /\ InitServer
    /\ input = Unset
    /\ output = NoOutput
    /\ race \in [st : {"racing"}, ms : 1..MaxMs, label : RaceLabels, clock : {0},
                 op : {Pending}, opAt : {0}, fired : {FALSE}, res : {Pending}]

\* Promise.race: the returned promise takes the first settlement and keeps it.
RaceSettle_LastWins(res, o) == o

RaceSettle(res, o) == IF res = Pending THEN o ELSE res

\* The promise passed in settles.  Nothing cancels it, so this can happen
\* before or after the timer.
OpSettle(o) ==
    /\ race.st = "racing"
    /\ race.op = Pending
    /\ race' = [race EXCEPT !.op = o, !.opAt = race.clock, !.res = RaceSettle(race.res, o)]
    /\ UNCHANGED <<serverVars, input, output>>

\* Time passes; as it reaches ms, delay(ms) resolves and the async function
\* throws new Error(`${label} timed out after ${ms}ms`).
Tick ==
    /\ race.st = "racing"
    /\ race.clock < MaxClock
    /\ race' = IF race.clock + 1 = race.ms
               THEN [race EXCEPT !.clock = @ + 1, !.fired = TRUE,
                                 !.res = RaceSettle(race.res,
                                                    Rejected(TimeoutError(race.label, race.ms)))]
               ELSE [race EXCEPT !.clock = @ + 1]
    /\ UNCHANGED <<serverVars, input, output>>

NextDeadline ==
    \/ Tick
    \/ \E o \in OpOutcomes : OpSettle(o)

SpecDeadline == InitDeadline /\ [][NextDeadline]_vars

\* ------------------------------------------------------ text helpers
\* The text of a page element: white space, sign, point, digits, a letter,
\* and the word page.
SourceChars == {" ", "\n", "-", ".", "0", "7", "x", "page"}
SourceTexts == UNION {[1..k -> SourceChars] : k \in 0..MaxTextLen}

\* .replace(/\s+/g, ' '): every run of white space becomes one blank.
RECURSIVE Collapse(_)
Collapse(s) ==
    IF s = <<>> THEN <<>>
    ELSE IF Head(s) \in WhiteSpace THEN <<" ">> \o Collapse(TrimLeft(s))
    ELSE <<Head(s)>> \o Collapse(Tail(s))

\* const clean = (s) => (s ? String(s).replace(/\s+/g, ' ').trim() : null);
\* null, undefined and the empty string are falsy.
Clean(s) == IF s \in {Null, <<>>} THEN Null ELSE Trim(Collapse(s))

\* .replace(/\D/g, '')
StripNonDigits(s) == SelectSeq(s, LAMBDA c : c \in Digits)

\* NaN becomes undefined: Number.isNaN(n) ? undefined : n
OrUndefined(n) == IF n = NaN THEN Undefined ELSE n

\* getText on an element whose textContent is t; Null when the query rejects.
TextOf(t) == IF t = Null THEN Null ELSE Clean(t)

\* const avgRating = (() => { const n = parseFloat(ratingValue); ... })()
AvgRating(t) == OrUndefined(ParseFloat(TextOf(t)))

\* parseInt((ratingsCountText||'').replace(/\D/g,''), 10), NaN -> undefined
RatingCount(t) ==
    LET v == TextOf(t)
        text == IF v \in {Null, <<>>} THEN <<>> ELSE v
    IN  OrUndefined(ParseInt(StripNonDigits(text)))

\* pageCount from the text of the Format entry, taken as one part (no comma,
\* no slash): when the part names pages, parseInt of its digits unless NaN;
\* else null, and pageCount ?? undefined.
PageCount(t) ==
    LET part == IF t = Null THEN <<>> ELSE Trim(Collapse(t))
        n == ParseInt(StripNonDigits(part))
    IN  IF (\E i \in 1..Len(part) : part[i] = "page") /\ n # NaN THEN n ELSE Undefined

InitText ==
    /\ InitServer
    /\ race = NoRace
    /\ input \in SourceTexts \cup {Null}
    /\ output = NoOutput

\* clean is applied to the text, and again to what it returned.
ApplyClean ==
    /\ input # Unset /\ output = NoOutput
    /\ output' = [fn |-> "clean", once |-> Clean(input), twice |-> Clean(Clean(input))]
    /\ UNCHANGED <<serverVars, race, input>>

\* The numeric fields of the record, each with the text as its source.
DeriveNumbers ==
    /\ input # Unset /\ output = NoOutput
    /\ output' = [fn |-> "numbers", avgRating |-> AvgRating(input),
                  ratingCount |-> RatingCount(input), pageCount |-> PageCount(input)]
    /\ UNCHANGED <<serverVars, race, input>>

NextText ==
    \/ ApplyClean
    \/ DeriveNumbers

SpecText == InitText /\ [][NextText]_vars

\* ------------------------------------------------------ date formatter
monthNames ==
    <<"January", "February", "March", "April", "May", "June", "July",
      "August", "September", "October", "November", "December">>

AllDigits(s) == \A i \in 1..Len(s) : s[i] \in Digits

\* String(iso||'').match(/^(\d{4})(?:-(\d{2}))?(?:-(\d{2}))?$/): the groups
\* y, mm, dd of the match, an unmatched group being Absent; ok is FALSE
\* when the text does not match.
MatchISO(s) ==
    LET t == IF s = Null THEN <<>> ELSE s
        sep(i) == t[i] = "-"
    IN  IF Len(t) = 4 /\ AllDigits(t)
        THEN [ok |-> TRUE, y |-> t, mm |-> Absent, dd |-> Absent]
        ELSE IF Len(t) = 7 /\ AllDigits(SubSeq(t, 1, 4)) /\ sep(5)
                /\ AllDigits(SubSeq(t, 6, 7))
        THEN [ok |-> TRUE, y |-> SubSeq(t, 1, 4), mm |-> SubSeq(t, 6, 7), dd |-> Absent]
        ELSE IF Len(t) = 10 /\ AllDigits(SubSeq(t, 1, 4)) /\ sep(5)
                /\ AllDigits(SubSeq(t, 6, 7)) /\ sep(8) /\ AllDigits(SubSeq(t, 9, 10))
        THEN [ok |-> TRUE, y |-> SubSeq(t, 1, 4), mm |-> SubSeq(t, 6, 7), dd |-> SubSeq(t, 9, 10)]
        ELSE [ok |-> FALSE, y |-> <<>>, mm |-> Absent, dd |-> Absent]

\* `${monthNames[+mm-1]}`: an index outside the array reads undefined, which
\* the template prints as the word undefined.
MonthText(mm) ==
    LET k == DigitsValue(mm) - 1
    IN  IF k \in 0..(Len(monthNames) - 1) THEN monthNames[k + 1] ELSE "undefined"

DigitChar(k) == CHOOSE c \in Digits : DigitVal[c] = k

\* `${+dd}`: the number printed in decimal, so without a leading zero.
NumberText(n) == IF n < 10 THEN <<DigitChar(n)>> ELSE <<DigitChar(n \div 10), DigitChar(n % 10)>>

fmtISO(iso) ==
    LET m == MatchISO(iso)
    IN  IF ~m.ok THEN Null
        ELSE IF m.dd # Absent
        THEN <<MonthText(m.mm), " ">> \o NumberText(DigitsValue(m.dd)) \o <<",", " ">> \o m.y
        ELSE IF m.mm # Absent THEN <<MonthText(m.mm), " ">> \o m.y
        ELSE m.y

\* The values of datePublished the formatter is given: a year, a month and a
\* day part, well formed or not, joined by a dash or by another character.
YearParts == {<<"2", "0", "2", "0">>, <<"0", "0", "0", "0">>, <<"2", "0", "x", "0">>, <<"2", "0", "2">>}
MonthParts == {<<"0", "0">>, <<"0", "1">>, <<"0", "5">>, <<"1", "2">>, <<"1", "3">>, <<"1", "x">>, <<"5">>}
DayParts == {<<"0", "0">>, <<"0", "1">>, <<"1", "4">>, <<"3", "1">>, <<"x", "1">>, <<"4">>}
Separators == {"-", "/"}
DateTexts ==
    YearParts
    \cup {y \o <<a>> \o m : y \in YearParts, a \in Separators, m \in MonthParts}
    \cup {y \o <<a>> \o m \o <<b>> \o d :
             y \in YearParts, a \in Separators, m \in MonthParts,
             b \in Separators, d \in DayParts}
    \cup {Null, <<>>, <<"a", "b", "c", "d">>}

InitDate ==
    /\ InitServer
    /\ race = NoRace
    /\ input \in DateTexts
    /\ output = NoOutput

\* const dateText = fmtISO(...)
FormatDate ==
    /\ input # Unset /\ output = NoOutput
    /\ output' = [fn |-> "fmtISO", text |-> fmtISO(input)]
    /\ UNCHANGED <<serverVars, race, input>>

NextDate == FormatDate

SpecDate == InitDate /\ [][NextDate]_vars

\* ------------------------------------------------------ structured data
\* A type name is a sequence of pieces: words, and "/" for any character
\* that is not a word character.
WordPieces == {"Book", "book", "Review", "Audio"}
Lower == "Book" :> "book" @@ "book" :> "book" @@ "Review" :> "review"
         @@ "Audio" :> "audio" @@ "/" :> "/"

\* The @type of an object: none, one name, or a list of names.
NoTag == [list |-> FALSE, names |-> <<>>]
NameTag(n) == [list |-> FALSE, names |-> <<n>>]
ListTag(ns) == [list |-> TRUE, names |-> ns]
LeafTags == {NameTag(<<"Review">>), NameTag(<<"Book">>), NameTag(<<"book">>),
             NameTag(<<"Audio", "book">>), NameTag(<<"/", "Book">>),
             ListTag(<<<<"Review">>, <<"Book">>>>)}
OuterTags == {NoTag, NameTag(<<"Book">>)}

\* Property names: an ordinary one and one that is an array index.
IndexKeys == {"0"}
Keys == {"mainEntity"} \cup IndexKeys

\* What a script block holds: text JSON.parse rejects, an object with its
\* properties in the order of the text, or an array.
Unparsable == [k |-> "unparsable", tag |-> NoTag, kids |-> <<>>]
Obj(tag, kids) == [k |-> "object", tag |-> tag, kids |-> kids]
Arr(kids) == [k |-> "array", tag |-> NoTag, kids |-> kids]
Entry(key, v) == [key |-> key, v |-> v]

LeafObjects == {Obj(t, <<>>) : t \in LeafTags}
ItemLists == UNION {[1..n -> {Entry("", o) : o \in LeafObjects}] : n \in 0..MaxEntries}
\* JSON.parse keeps one property per name.
EntryLists ==
    {es \in UNION {[1..n -> {Entry(key, o) : key \in Keys, o \in LeafObjects}] :
                      n \in 0..MaxEntries} :
        \A i, j \in 1..Len(es) : i # j => es[i].key # es[j].key}
Blocks ==
    {Unparsable} \cup LeafObjects
    \cup {Obj(t, es) : t \in OuterTags, es \in EntryLists \ {<<>>}}
    \cup {Arr(is) : is \in ItemLists}
Documents == UNION {[1..n -> Blocks] : n \in 0..MaxBlocks}

Indices(n) == [i \in 1..n |-> i]

\* .map(t => { try { return JSON.parse(t) } catch { return null } }).filter(Boolean)
\* the blocks that remain, by their position in the document.
Blobs(doc) == SelectSeq(Indices(Len(doc)), LAMBDA i : doc[i].k # "unparsable")

\* Object.values(o): the properties whose name is an array index come first,
\* in ascending order, then the others in the order they were created.
ValuesOrder(o) ==
    SelectSeq(Indices(Len(o.kids)), LAMBDA i : o.kids[i].key \in IndexKeys)
    \o SelectSeq(Indices(Len(o.kids)), LAMBDA i : o.kids[i].key \notin IndexKeys)

\* const flatten = (o) => { arrays: forEach(flatten); objects: push, then
\* flatten every value }. Each object is kept with its place in the document.
RECURSIVE flatten(_, _, _)
flatten(kids, order, path) ==
    IF order = <<>> THEN <<>>
    ELSE LET i == Head(order)
             o == kids[i].v
             here == Append(path, i)
             own == IF o.k = "object" THEN <<[path |-> here, o |-> o]>> ELSE <<>>
             sub == IF o.k = "object" THEN ValuesOrder(o) ELSE Indices(Len(o.kids))
         IN  own \o flatten(o.kids, sub, here) \o flatten(kids, Tail(order), path)

\* blobs.forEach(flatten)
Flat(doc) == flatten([i \in 1..Len(doc) |-> Entry("", doc[i])], Blobs(doc), <<>>)

\* typeof t === 'string' && /\bBook\b/i.test(t)
isBookType(t) ==
    \E i \in 1..Len(t) :
        /\ t[i] \in WordPieces /\ Lower[t[i]] = "book"
        /\ (i = 1 \/ t[i - 1] \notin WordPieces)
        /\ (i = Len(t) \/ t[i + 1] \notin WordPieces)

\* isBookType(o['@type']) || (Array.isArray(o['@type']) && o['@type'].some(isBookType))
HasBookType(o) ==
    IF o.tag.list THEN \E i \in 1..Len(o.tag.names) : isBookType(o.tag.names[i])
    ELSE o.tag.names # <<>> /\ isBookType(o.tag.names[1])

NoBook == [fn |-> "ldBook", found |-> FALSE, path |-> <<>>]

\* ldBook = flat.find(...) || null
LdBook(doc) ==
    LET flat == Flat(doc)
        hits == SelectSeq(flat, LAMBDA e : HasBookType(e.o))
    IN  IF hits = <<>> THEN NoBook
        ELSE [fn |-> "ldBook", found |-> TRUE, path |-> hits[1].path]

InitLd ==
    /\ InitServer
    /\ race = NoRace
    /\ input \in Documents
    /\ output = NoOutput

FindBook ==
    /\ output = NoOutput
    /\ output' = LdBook(input)
    /\ UNCHANGED <<serverVars, race, input>>

NextLd == FindBook

SpecLd == InitLd /\ [][NextLd]_vars


\* ------------------------------------------------------ merging the sources
\* A field's text in the DOM is made of "d" and blanks, its text in the
\* structured data of "l" and blanks, so that a value tells where it is from.
DomTexts == UNION {[1..k -> {" ", "d"}] : k \in 0..MaxFieldLen}
LdTexts == UNION {[1..k -> {" ", "l"}] : k \in 0..MaxFieldLen}

\* x || y on texts: null, undefined and the empty string are falsy.
OrText_Second(x, y) == IF y \in {Null, <<>>} THEN x ELSE y

OrText(x, y) == IF x \in {Null, <<>>} THEN y ELSE x

\* getText(locator, 6000).then(v => v || clean(ldBook?.name)), and in the
\* record title: title || null.  The same for author.
MergeText(dom, ld) == OrText(OrText(TextOf(dom), Clean(ld)), Null)

\* .replace(/\s*\.{3}\s*more\s*$/i, ''), on a text that ends with the
\* "...more" marker of a truncated description.
StripMore(t) ==
    IF t # <<>> /\ t[Len(t)] = "...more" THEN TrimRight(SubSeq(t, 1, Len(t) - 1)) ELSE t

\* getText(...).then(v => v || clean(ldBook?.description)), and in the record
\* description: descriptionRaw?.replace(...).trim() || null
MergeDescription(dom, ld) ==
    LET descriptionRaw == OrText(TextOf(dom), Clean(ld))
    IN  OrText(IF descriptionRaw = Null THEN Null ELSE Trim(StripMore(descriptionRaw)), Null)

\* Descriptions the page cuts short.
TruncatedTexts == {<<"...more">>, <<"d", "...more">>, <<"d", " ", "...more">>}

\* toText of the details map: (el.textContent || '').replace(/\s+/g, ' ').trim()
toText(t) == Trim(Collapse(t))

\* detailsMap['language'] || clean(ldBook?.inLanguage || ldBook?.language) || null;
\* dom is Null when the details list has no such entry.
MergeLanguage(dom, ld) ==
    OrText(OrText(IF dom = Null THEN Null ELSE toText(dom), Clean(ld)), Null)

\* The texts a "Published" entry of the page can hold.
PublishedTexts ==
    { <<"d">>, <<"d", " ", "by", " ", "d">>, <<"First published", " ", "d">>,
      <<"First published", " ", "d", " ", "by", " ", "d">>, <<" ">> }
CandidateLists == UNION {[1..n -> PublishedTexts] : n \in 0..MaxCandidates}

\* /^First published/i and /\sby\s/i
IsFirstPublished(t) == t # <<>> /\ t[1] = "First published"
HasBy(t) == \E i \in 2..(Len(t) - 1) : t[i] = "by" /\ t[i - 1] = " " /\ t[i + 1] = " "

\* The quick pass over the "Published" entries; cands is Null when
\* allTextContents() throws.
DomPublished(cands) ==
    IF cands = Null THEN Null
    ELSE LET all == [i \in 1..Len(cands) |-> Clean(cands[i])]
             cleaned == SelectSeq(all, LAMBDA t : t \notin {Null, <<>>} /\ ~IsFirstPublished(t))
             withBy == SelectSeq(cleaned, HasBy)
         IN  IF withBy # <<>> THEN withBy[1]
             ELSE IF cleaned # <<>> THEN cleaned[Len(cleaned)]
             ELSE Null

\* The structured-data fallback: `${dateText} by ${publisherName}`, or the
\* date alone.  A page without a book object reads as no date, no publisher.
LdPublished(date, pub) ==
    LET dateText == fmtISO(Clean(date))
        publisherName == Clean(pub)
    IN  IF dateText \notin {Null, <<>>} /\ publisherName \notin {Null, <<>>}
        THEN dateText \o <<" ", "by", " ">> \o publisherName
        ELSE IF dateText \notin {Null, <<>>} THEN dateText
        ELSE Null

\* publishedfull: the quick pass, if (!publishedfull && ldBook) the fallback,
\* if (!publishedfull) the scan of the visible text; publishedfull || null.
PublishedFull(cands, date, pub, scan) ==
    OrText(OrText(OrText(DomPublished(cands), LdPublished(date, pub)), scan), Null)

TextFields == {"title", "author"}
LdDates == {Null, <<"2", "0", "2", "0">>, <<"a", "b", "c", "d">>}
FieldSources ==
    [field : TextFields \cup {"language"}, dom : DomTexts \cup {Null}, ld : LdTexts \cup {Null},
     cands : {<<>>}, date : {Null}, scan : {Null}]
    \cup [field : {"description"}, dom : DomTexts \cup TruncatedTexts \cup {Null},
          ld : LdTexts \cup {Null}, cands : {<<>>}, date : {Null}, scan : {Null}]
    \cup [field : {"publishedfull"}, dom : {Null}, ld : {Null, <<"l">>},
          cands : CandidateLists \cup {Null}, date : LdDates, scan : {Null, <<"s">>}]

Merged(i) ==
    CASE i.field \in TextFields -> MergeText(i.dom, i.ld)
      [] i.field = "description" -> MergeDescription(i.dom, i.ld)
      [] i.field = "language" -> MergeLanguage(i.dom, i.ld)
      [] OTHER -> PublishedFull(i.cands, i.date, i.ld, i.scan)

InitMerge ==
    /\ InitServer
    /\ race = NoRace
    /\ input \in FieldSources
    /\ output = NoOutput

\* The field of the record is assembled from its sources.
MergeField ==
    /\ output = NoOutput
    /\ output' = [fn |-> "merge", value |-> Merged(input)]
    /\ UNCHANGED <<serverVars, race, input>>

NextMerge == MergeField

SpecMerge == InitMerge /\ [][NextMerge]_vars


\* ------------------------------------------------------ the details panel
\* The task that opens the details panel, and the pipeline around it, followed
\* on a clock that advances by PauseMs.  pos is where the task is suspended,
\* label the button pattern it is trying, result what its promise settled
\* with; pipe is where the attempt is: at the field queries, at the await of
\* Promise.race([openDetails, delay(500)]) since t0, or past it since at.
DetailsStart ==
    [st |-> "details", clock |-> 0, pos |-> "quick", label |-> 0, since |-> 0,
     result |-> "pending", doneAt |-> 0, pipe |-> "fields", t0 |-> 0, at |-> 0]

\* The promise of the task settles with v; an await of the race that is
\* pending settles with it.
Finish(t, v) ==
    LET d == [t EXCEPT !.pos = "done", !.result = v, !.doneAt = t.clock]
    IN  IF t.pipe = "grace"
        THEN [d EXCEPT !.pipe = IF v = "rejected" THEN "failed" ELSE "after", !.at = t.clock]
        ELSE d

\* for (const rx of labels): the next pattern, or return false after the last.
NextLabel(t) ==
    IF t.label < DetailLabels
    THEN [t EXCEPT !.pos = "waitFor", !.label = t.label + 1]
    ELSE Finish(t, "false")

\* A call of the engine inside the loop throws.
StepThrows_Uncaught(t) == Finish(t, "rejected")

\* try { ... } catch {}: the loop goes on with the next pattern.
StepThrows(t) == NextLabel(t)

InitDetails ==
    /\ InitServer
    /\ input = Unset
    /\ output = NoOutput
    /\ race = DetailsStart

\* isVisible() of the details entries settles: return true when they are
\* there, else (not visible, or .catch(() => false)) enter the loop.
QuickSeen(v) ==
    /\ race.st = "details" /\ race.pos = "quick"
    /\ race' = IF v = "visible" THEN Finish(race, "true") ELSE NextLabel(race)
    /\ UNCHANGED <<serverVars, input, output>>

\* btn.waitFor({ state: 'visible', timeout: 800 }) settles.
WaitForDone(ok) ==
    /\ race.st = "details" /\ race.pos = "waitFor"
    /\ race' = IF ok THEN [race EXCEPT !.pos = "click"] ELSE StepThrows(race)
    /\ UNCHANGED <<serverVars, input, output>>

\* btn.click({ timeout: 600 }) settles; then page.waitForTimeout(250) starts.
ClickDone(ok) ==
    /\ race.st = "details" /\ race.pos = "click"
    /\ race' = IF ok THEN [race EXCEPT !.pos = "pause", !.since = race.clock]
               ELSE StepThrows(race)
    /\ UNCHANGED <<serverVars, input, output>>

\* The pause is over, or it throws because the page is gone.
PauseDone(ok) ==
    /\ race.st = "details" /\ race.pos = "pause"
    /\ ok => race.clock >= race.since + PauseMs
    /\ race' = IF ok THEN [race EXCEPT !.pos = "opened"] ELSE StepThrows(race)
    /\ UNCHANGED <<serverVars, input, output>>

\* const opened = await Promise.race([waitForSelector(...), waitForSelector(...)]),
\* each with .then(() => true).catch(() => false).
OpenedDone(opened) ==
    /\ race.st = "details" /\ race.pos = "opened"
    /\ race' = IF opened THEN Finish(race, "true") ELSE NextLabel(race)
    /\ UNCHANGED <<serverVars, input, output>>

\* The field queries are done: await Promise.race([openDetails, delay(500)]).
\* A task that has settled settles the race at once.
StartGrace ==
    /\ race.st = "details" /\ race.pipe = "fields"
    /\ race' = IF race.result = "pending"
               THEN [race EXCEPT !.pipe = "grace", !.t0 = race.clock]
               ELSE [race EXCEPT !.pipe = IF race.result = "rejected" THEN "failed" ELSE "after",
                                 !.t0 = race.clock, !.at = race.clock]
    /\ UNCHANGED <<serverVars, input, output>>

\* Time passes; delay(500) resolves as the clock reaches t0 + 500.
DetailsTick ==
    /\ race.st = "details"
    /\ race.clock < MaxClock * PauseMs
    /\ race' = IF race.pipe = "grace" /\ race.clock + PauseMs = race.t0 + GraceMs
               THEN [race EXCEPT !.clock = @ + PauseMs, !.pipe = "after", !.at = race.clock + PauseMs]
               ELSE [race EXCEPT !.clock = @ + PauseMs]
    /\ UNCHANGED <<serverVars, input, output>>

NextDetails ==
    \/ \E v \in {"visible", "hidden", "error"} : QuickSeen(v)
    \/ \E ok \in BOOLEAN : WaitForDone(ok)
    \/ \E ok \in BOOLEAN : ClickDone(ok)
    \/ \E ok \in BOOLEAN : PauseDone(ok)
    \/ \E opened \in BOOLEAN : OpenedDone(opened)
    \/ StartGrace
    \/ DetailsTick

SpecDetails == InitDetails /\ [][NextDetails]_vars


\* ------------------------------------------------------ the timeout parameter
\* The raw values of ?timeout=: missing, or a text of signs, digits and
\* letters.
TimeoutChars == {"-", "0", "1", "6", "9", "x"}
TimeoutTexts == {Absent} \cup UNION {[1..k -> TimeoutChars] : k \in 0..MaxTimeoutLen}

InitTimeout ==
    /\ InitServer
    /\ race = NoRace
    /\ input \in TimeoutTexts
    /\ output = NoOutput

\* const timeout = Math.max(15000, Math.min(60000, parseInt(...) || 45000));
ReadTimeout ==
    /\ output = NoOutput
    /\ output' = [fn |-> "timeout", ms |-> ParseTimeout(input)]
    /\ UNCHANGED <<serverVars, race, input>>

NextTimeout == ReadTimeout

SpecTimeout == InitTimeout /\ [][NextTimeout]_vars


\* ------------------------------------------------------ the latch, job by job
\* getBrowser followed promise job by promise job.  A turn of the event loop
\* is a callback (a request handler, a timer, an answer of the engine) and
\* then the promise jobs it made runnable, in the order they were queued;
\* race.q is that queue.  The callers are the requests, reduced to their calls
\* of getBrowser: pc, ph and h as in the server.
Job(k, b, p) == [k |-> k, b |-> b, p |-> p]
Turn(q) == [st |-> "turn", q |-> q]

\* The next callback runs when the promise jobs of the last one have run.
TurnEnded_Any(q) == TRUE

TurnEnded(q) == q = <<>>

\* What no step of getBrowser touches.
latchRest ==
    <<sig, openCtx, warmed, raw, timeout, isbn, attempt, out, page, rec, resp, body, fails,
      firstB, poison, mode, scn, input, output>>

\* The callers that await launch b, as jobs in the order of the requests.
RECURSIVE Waiters(_, _, _)
Waiters(k, b, ps) ==
    IF ps = {} THEN <<>>
    ELSE LET p == CHOOSE x \in ps : \A y \in ps : x <= y
         IN  (IF pc[p] = "awaitLaunch" /\ h[p] = b THEN <<Job(k, b, p)>> ELSE <<>>)
             \o Waiters(k, b, ps \ {p})

InitLatch ==
    /\ InitServer
    /\ input = Unset
    /\ output = NoOutput
    /\ race = Turn(<<>>)

\* A caller enters newContextSafe and calls getBrowser(): the test of
\* browserRef and of launching and the assignment of launching are one
\* synchronous run.
LatchCall(p) ==
    /\ race.st = "turn" /\ TurnEnded(race.q)
    /\ pc[p] = "idle"
    /\ Acquire(p, browserRef, "try")
    /\ UNCHANGED <<browserRef, race, latchRest>>

\* The caller is done with the handle it got.
LatchDone(p) ==
    /\ race.st = "turn" /\ TurnEnded(race.q)
    /\ pc[p] = "awaitCtx"
    /\ pc' = [pc EXCEPT ![p] = "idle"]
    /\ h' = [h EXCEPT ![p] = 0]
    /\ ph' = [ph EXCEPT ![p] = "none"]
    /\ UNCHANGED <<browserRef, launching, bstate, nextB, fbL, race, latchRest>>

\* chromium.launch() settles: launchBrowserOnce is resumed by a promise job.
LaunchSettles(b, ok) ==
    /\ race.st = "turn" /\ TurnEnded(race.q)
    /\ bstate[b] = "launching"
    /\ bstate' = [bstate EXCEPT ![b] = IF ok THEN "alive" ELSE "failed"]
    /\ race' = Turn(<<Job(IF ok THEN "returned" ELSE "threw", b, 0)>>)
    /\ UNCHANGED <<browserRef, launching, nextB, pc, h, ph, fbL, latchRest>>

\* delay(timeoutMs) of withDeadline(launching, ...) resolves for caller p.
LatchTimer(p) ==
    /\ race.st = "turn" /\ TurnEnded(race.q)
    /\ pc[p] = "awaitLaunch"
    /\ race' = Turn(<<Job("callerErr", h[p], p)>>)
    /\ UNCHANGED <<browserRef, launching, bstate, nextB, pc, h, ph, fbL, latchRest>>

\* The browser goes away and its 'disconnected' handler runs.
LatchDisconnect(b) ==
    /\ race.st = "turn" /\ TurnEnded(race.q)
    /\ bstate[b] = "alive"
    /\ bstate' = [bstate EXCEPT ![b] = "dead"]
    /\ browserRef' = 0
    /\ UNCHANGED <<launching, nextB, pc, h, ph, fbL, race, latchRest>>

\* The promise job at the head of the queue.
HeadJob(k) == race.st = "turn" /\ race.q # <<>> /\ Head(race.q).k = k

\* launchBrowserOnce registers the handler and returns the browser, or
\* throws: the async function of getBrowser is resumed next.
JobReturned ==
    /\ HeadJob("returned") \/ HeadJob("threw")
    /\ race' = Turn(Tail(race.q)
                    \o <<Job(IF HeadJob("returned") THEN "finallyOk" ELSE "finallyErr",
                             Head(race.q).b, 0)>>)
    /\ UNCHANGED <<browserRef, launching, bstate, nextB, pc, h, ph, fbL, latchRest>>

\* finally { launching = null; }  The then callbacks come in a later job.
JobFinally ==
    /\ HeadJob("finallyOk") \/ HeadJob("finallyErr")
    /\ launching' = 0
    /\ race' = Turn(Tail(race.q)
                    \o <<Job(IF HeadJob("finallyOk") THEN "publish" ELSE "reject",
                             Head(race.q).b, 0)>>)
    /\ UNCHANGED <<browserRef, bstate, nextB, pc, h, ph, fbL, latchRest>>

\* .then(b => (browserRef = b), ...): the callers that await the launch are
\* resumed by the jobs that follow.
JobPublish ==
    /\ HeadJob("publish")
    /\ browserRef' = Head(race.q).b
    /\ race' = Turn(Tail(race.q) \o Waiters("callerOk", Head(race.q).b, Requests))
    /\ UNCHANGED <<launching, bstate, nextB, pc, h, ph, fbL, latchRest>>

\* .then(..., e => { browserRef = null; throw e; })
JobReject ==
    /\ HeadJob("reject")
    /\ browserRef' = 0
    /\ race' = Turn(Tail(race.q) \o Waiters("callerErr", Head(race.q).b, Requests))
    /\ UNCHANGED <<launching, bstate, nextB, pc, h, ph, fbL, latchRest>>

\* getBrowser() returns the handle to caller p.
JobCallerOk ==
    /\ HeadJob("callerOk")
    /\ LET p == Head(race.q).p IN
       /\ pc' = [pc EXCEPT ![p] = IF @ = "awaitLaunch" THEN "awaitCtx" ELSE @]
    /\ race' = Turn(Tail(race.q))
    /\ UNCHANGED <<browserRef, launching, bstate, nextB, h, ph, fbL, latchRest>>

\* getBrowser() throws to caller p.  In the try block of newContextSafe the
\* catch block runs: browserRef is null here, so nothing is closed, and
\* getBrowser() is called again; in the catch block the error leaves
\* newContextSafe.
JobCallerErr ==
    /\ HeadJob("callerErr")
    /\ LET p == Head(race.q).p IN
       IF pc[p] # "awaitLaunch" \/ h[p] # Head(race.q).b
       THEN UNCHANGED <<browserRef, launching, bstate, nextB, pc, h, ph, fbL>>
       ELSE IF ph[p] = "try"
       THEN /\ browserRef = 0
            /\ browserRef' = 0
            /\ Acquire(p, 0, "fb")
       ELSE /\ pc' = [pc EXCEPT ![p] = "idle"]
            /\ h' = [h EXCEPT ![p] = 0]
            /\ ph' = [ph EXCEPT ![p] = "none"]
            /\ fbL' = [fbL EXCEPT ![p] = 0]
            /\ UNCHANGED <<browserRef, launching, bstate, nextB>>
    /\ race' = Turn(Tail(race.q))
    /\ UNCHANGED latchRest

NextLatch ==
    \/ \E p \in Requests : LatchCall(p)
    \/ \E p \in Requests : LatchDone(p)
    \/ \E b \in Browsers, ok \in BOOLEAN : LaunchSettles(b, ok)
    \/ \E p \in Requests : LatchTimer(p)
    \/ \E b \in Browsers : LatchDisconnect(b)
    \/ JobReturned
    \/ JobFinally
    \/ JobPublish
    \/ JobReject
    \/ JobCallerOk
    \/ JobCallerErr

SpecLatch == InitLatch /\ [][NextLatch]_vars


\* ------------------------------------------------------ the /warmup route
\* app.get('/warmup', ...): one async function that takes a context from
\* newContextSafe, opens the home page and closes the context, raced against
\* a deadline.  The requests of this specification are warmups; they share
\* the session lifecycle with /scrape and have no attempts (attempt stays 0).
WarmedBody == [kind |-> "warmed", data |-> NoRec, error |-> Error("")]

\* The async function of the warmup rejects with err: the route answers 500
\* unless the deadline has answered.  Nothing else is done.
WarmupFails(p, err) ==
    /\ pc' = [pc EXCEPT ![p] = "settled"]
    /\ out' = [out EXCEPT ![p] = "err"]
    /\ resp' = [resp EXCEPT ![p] = IF @ = "none" THEN "500 error" ELSE @]
    /\ body' = [body EXCEPT ![p] = IF resp[p] = "none" THEN ErrorBody(err) ELSE @]
    /\ h' = [h EXCEPT ![p] = 0]
    /\ ph' = [ph EXCEPT ![p] = "none"]
    /\ fbL' = [fbL EXCEPT ![p] = 0]
    /\ poison' = [poison EXCEPT ![p] = 0]
    /\ UNCHANGED <<engineVars, sharedVars, raw, timeout, isbn, attempt, page, rec, fails, firstB>>

\* The handler runs up to the await inside getBrowser.
WarmupReceive(p) ==
    /\ pc[p] = "idle"
    /\ warmed
    /\ Acquire(p, browserRef, "try")
    /\ UNCHANGED <<browserRef, sig, openCtx, warmed, raw, timeout, isbn, attempt, out, page, rec,
                   resp, body, fails, firstB, poison, mode, scn>>

\* withDeadline(..., 20000, 'warmup'): the timer wins; the function runs on.
WarmupDeadline(p) ==
    /\ Active(p)
    /\ resp[p] = "none"
    /\ resp' = [resp EXCEPT ![p] = "500 timeout"]
    /\ body' = [body EXCEPT ![p] = ErrorBody(TimeoutError("warmup", WarmupTimeoutMs))]
    /\ UNCHANGED <<engineVars, sharedVars, raw, timeout, isbn, pc, attempt, ph, h, out, page, rec,
                   histVars>>

\* chromium.launch() rejects; as LaunchFail, with a waiting warmup in the
\* catch block of newContextSafe failing its function.
WarmupLaunchFail(b) ==
    /\ bstate[b] = "launching"
    /\ LET W == {r \in Requests : pc[r] = "awaitLaunch" /\ h[r] = b}
           T == {r \in W : ph[r] = "try"}
           F == W \ T
           relaunch == T # {}
       IN
       /\ relaunch => nextB <= MaxBrowsers
       /\ bstate' = IF relaunch
                    THEN [bstate EXCEPT ![b] = "failed", ![nextB] = "launching"]
                    ELSE [bstate EXCEPT ![b] = "failed"]
       /\ launching' = IF relaunch THEN nextB ELSE 0
       /\ nextB' = IF relaunch THEN nextB + 1 ELSE nextB
       /\ browserRef' = 0
       /\ pc' = [r \in Requests |->
                   IF r \in T THEN "awaitLaunch" ELSE IF r \in F THEN "settled" ELSE pc[r]]
       /\ h' = [r \in Requests |-> IF r \in T THEN nextB ELSE IF r \in F THEN 0 ELSE h[r]]
       /\ ph' = [r \in Requests |->
                   IF r \in T THEN "fb" ELSE IF r \in F THEN "none" ELSE ph[r]]
       /\ \E s \in (IF relaunch THEN T ELSE {0}) :
             fbL' = [r \in Requests |->
                       IF r = s THEN fbL[r] + 1 ELSE IF r \in F THEN 0 ELSE fbL[r]]
       /\ poison' = [r \in Requests |-> IF r \in W THEN 0 ELSE poison[r]]
       /\ out' = [r \in Requests |-> IF r \in F THEN "err" ELSE out[r]]
       /\ resp' = [r \in Requests |->
                     IF r \in F /\ resp[r] = "none" THEN "500 error" ELSE resp[r]]
       /\ body' = [r \in Requests |->
                     IF r \in F /\ resp[r] = "none" THEN ErrorBody(Error("launch")) ELSE body[r]]
    /\ mode' = "faulty"
    /\ scn' = Disturb(scn)
    /\ UNCHANGED <<sig, openCtx, warmed, raw, timeout, isbn, attempt, page, rec, fails, firstB>>

\* The launch timer of getBrowser wins for the warmup.
WarmupLaunchTimeout(p) ==
    /\ pc[p] = "awaitLaunch"
    /\ bstate[h[p]] = "launching"
    /\ IF ph[p] = "try"
       THEN NewContextCatch(p, 0)
       ELSE WarmupFails(p, TimeoutError("Chromium launch", LaunchTimeoutMs))
    /\ UNCHANGED <<mode, scn>>

\* browser.newContext() rejects.
WarmupCtxFail(p) ==
    /\ pc[p] = "awaitCtx"
    /\ IF ph[p] = "try" THEN NewContextCatch(p, h[p]) ELSE WarmupFails(p, Error("newContext"))
    /\ mode' = "faulty"
    /\ scn' = Disturb(scn)

\* ctx.newPage() and page.goto(...) succeed: await ctx.close() is next.
WarmupNavOk(p) ==
    /\ pc[p] = "nav"
    /\ OwnCtx(p) # {}
    /\ pc' = [pc EXCEPT ![p] = "ctxClose"]
    /\ UNCHANGED <<engineVars, sharedVars, raw, timeout, isbn, attempt, ph, h, out, page, rec,
                   resp, body, histVars>>

\* One of them throws (the navigation times out after 15000 ms, the browser
\* is gone): the function has no catch and no finally, it rejects as it is.
WarmupNavFail(p) ==
    /\ pc[p] = "nav"
    /\ WarmupFails(p, Error("navigation"))
    /\ mode' = "faulty"
    /\ scn' = Disturb(scn)

\* await ctx.close() resolves: res.send('warmed') unless the deadline answered.
WarmupCtxCloseOk(p) ==
    /\ pc[p] = "ctxClose"
    /\ openCtx' = openCtx \ OwnCtx(p)
    /\ out' = [out EXCEPT ![p] = "ok"]
    /\ pc' = [pc EXCEPT ![p] = "settled"]
    /\ h' = [h EXCEPT ![p] = 0]
    /\ resp' = [resp EXCEPT ![p] = IF @ = "none" THEN "200" ELSE @]
    /\ body' = [body EXCEPT ![p] = IF resp[p] = "none" THEN WarmedBody ELSE @]
    /\ UNCHANGED <<bstate, nextB, sig, sharedVars, raw, timeout, isbn, attempt, ph, page, rec,
                   histVars>>

\* await ctx.close() rejects (the browser of the context is gone).
WarmupCtxCloseFail(p) ==
    /\ pc[p] = "ctxClose"
    /\ OwnCtx(p) = {}
    /\ WarmupFails(p, Error("close"))
    /\ mode' = "faulty"
    /\ scn' = Disturb(scn)

WarmupStep(p) ==
    /\ UNCHANGED fnVars
    /\ \/ WarmupReceive(p)
       \/ WarmupDeadline(p)
       \/ WarmupLaunchTimeout(p)
       \/ NscCloseSettled(p)
       \/ CtxCreated(p)
       \/ WarmupCtxFail(p)
       \/ WarmupNavOk(p)
       \/ WarmupNavFail(p)
       \/ WarmupCtxCloseOk(p)
       \/ WarmupCtxCloseFail(p)

WarmupEngine(b) ==
    /\ UNCHANGED fnVars
    /\ \/ LaunchSucceed(b)
       \/ WarmupLaunchFail(b)
       \/ Crash(b)
       \/ Signal(b)

NextWarmup ==
    \/ WarmLaunch /\ UNCHANGED fnVars
    \/ \E p \in Requests : WarmupStep(p)
    \/ \E b \in Browsers : WarmupEngine(b)

SpecWarmup == Init /\ [][NextWarmup]_vars

\* ------------------------------------------------------------ properties
InBody(r) == pc[r] \in {"nav", "extract", "ctxClose", "catchCtxClose"}
Launches == nextB - 1
InFlight == {b \in Browsers : bstate[b] = "launching"}

\* C1: a run of runScrape in which exactly the first attempt failed has
\* settled with the record the second attempt assembled, and with no error;
\* the route sends that record unless its own deadline answered before.
C1_RetryReturnsSecondRecord ==
    \A r \in Requests :
        (pc[r] = "settled" /\ fails[r] = 1) =>
            /\ out[r] = "ok"
            /\ rec[r].att = 2 /\ rec[r].isbn = isbn[r]
            /\ resp[r] \in {"200", "500 timeout"}

C1_Witness ==
    \E r \in Requests :
        /\ pc[r] = "settled" /\ fails[r] = 1
        /\ out[r] = "ok" /\ rec[r].att = 2 /\ resp[r] = "200"

\* C2: runScrape starts at most two attempts; an error is surfaced only by
\* the second failed attempt, and the second failure surfaces it at once, so
\* that no third attempt follows.
C2_AtMostTwoAttempts ==
    \A r \in Requests :
        /\ attempt[r] <= 2
        /\ fails[r] <= 2
        /\ out[r] = "err" => (fails[r] = 2 /\ attempt[r] = 2 /\ pc[r] = "settled")
        /\ fails[r] = 2 => (pc[r] = "settled" /\ out[r] = "err"
                            /\ resp[r] \in {"500 error", "500 timeout"})

C2_Witness ==
    \E r \in Requests :
        fails[r] = 2 /\ attempt[r] = 2 /\ out[r] = "err" /\ resp[r] = "500 error"

\* An open page context belongs to the attempt its request is running right
\* now: when an attempt has ended (retry pause, next attempt, settled run,
\* answered or not) none of its contexts is open.
OpenOnlyInBody == \A c \in openCtx : InBody(c.r) /\ attempt[c.r] = c.att

HasOpenCtx(r) == \E c \in openCtx : c.r = r

\* C3: every context an attempt creates is closed by the time the attempt
\* ends, on every exit path, the orphaned run after a deadline included; and
\* provided the engine answers the pending calls, a request that has a
\* context open comes to have none.
C3_ContextClosedAtExit ==
    /\ []OpenOnlyInBody
    /\ \A r \in Requests : HasOpenCtx(r) ~> ~HasOpenCtx(r)

\* The orphaned run of a request whose deadline expired has returned, and
\* its context is closed.
C3_Witness ==
    \E r \in Requests :
        /\ pc[r] = "settled" /\ out[r] = "ok" /\ resp[r] = "500 timeout"
        /\ ~HasOpenCtx(r)

\* C4: at most one launch is in flight, it is the one the latch holds, and
\* every caller waiting for a browser waits for that launch.
C4_OneLaunchInFlight ==
    /\ Cardinality(InFlight) <= 1
    /\ launching # 0 => InFlight = {launching}
    /\ \A r \in Requests : pc[r] = "awaitLaunch" => h[r] = launching

C4_Witness ==
    \E r1, r2 \in Requests :
        /\ r1 # r2
        /\ pc[r1] = "awaitLaunch" /\ pc[r2] = "awaitLaunch"
        /\ h[r1] = launching /\ h[r2] = launching

\* C5: as long as the engine has reported no failure and no browser has
\* disconnected, the process has launched at most one browser, however many
\* extraction calls have run.
C5_HealthyReuse == mode # "faulty" => Launches <= 1

\* Two calls, one after the other, both answered with a record, one launch.
C5_Witness ==
    /\ mode = "seq"
    /\ \A r \in Requests : pc[r] = "settled" /\ out[r] = "ok" /\ resp[r] = "200"
    /\ Launches = 1

\* C6: when the shared browser disconnects between two calls the handler
\* clears browserRef; the next call, if nothing else goes wrong, starts
\* exactly one launch and returns a record on its first attempt.
C6_DisconnectRecovery ==
    /\ scn.st = "armed" => (browserRef = 0 /\ launching = 0)
    /\ scn.st = "run" =>
          /\ nextB <= scn.l + 1
          /\ pc[scn.r] = "settled" =>
                /\ out[scn.r] = "ok" /\ resp[scn.r] = "200"
                /\ attempt[scn.r] = 1
                /\ nextB = scn.l + 1

C6_Witness == scn.st = "run" /\ pc[scn.r] = "settled" /\ out[scn.r] = "ok"

C8_RetryOnFreshSession ==
    \A r \in Requests :
        (firstB[r] # 0 /\ (pc[r] = "retryDelay" \/ attempt[r] = 2)) =>
            /\ browserRef # firstB[r]
            /\ h[r] # firstB[r]

C8_Witness ==
    \E r \in Requests :
        attempt[r] = 2 /\ pc[r] = "nav" /\ firstB[r] # 0 /\ h[r] # firstB[r]

\* C9: a request whose identifier is missing, empty or blank is answered 400
\* and never enters runScrape, newContextSafe or getBrowser: the only launch
\* there can be is the one of the listen callback, and no context exists.
C9_MissingIdentifier ==
    \A r \in Requests :
        (pc[r] # "idle" /\ Trim(ToStr(raw[r])) = <<>>) =>
            /\ pc[r] = "rejected" /\ resp[r] = "400"
            /\ attempt[r] = 0 /\ ph[r] = "none" /\ h[r] = 0 /\ out[r] = "pending"
            /\ Launches <= 1 /\ openCtx = {}

C9_Witness == pc[1] = "rejected" /\ raw[1] = Absent /\ resp[1] = "400"

\* C10, as stated: the identifier of a returned record is the raw query
\* value, untouched.
C10_Original ==
    \A r \in Requests : (pc[r] = "settled" /\ out[r] = "ok") => rec[r].isbn = raw[r]

\* C10, amended: the identifier of a returned record is the raw query value
\* with leading and trailing white space trimmed, and otherwise untouched.
C10_TrimmedIdentifier ==
    \A r \in Requests :
        (pc[r] = "settled" /\ out[r] = "ok") => rec[r].isbn = Trim(ToStr(raw[r]))

C10_Witness ==
    pc[1] = "settled" /\ out[1] = "ok" /\ resp[1] = "200"
        /\ raw[1] = <<" ", "9", " ">> /\ rec[1].isbn = <<"9">>

\* What a request has been sent fits its status, and a record is sent only
\* for a run of runScrape that returned it.
ResponseWellFormed(r) ==
    /\ resp[r] = "none" <=> body[r] = NoBody
    /\ resp[r] = "200" =>
          /\ body[r].kind = "record" /\ body[r].error = Error("")
          /\ out[r] = "ok" /\ body[r].data = rec[r]
          /\ body[r].data.isbn = isbn[r] /\ body[r].data.att \in 1..MaxAttempts
    /\ resp[r] \in {"400", "500 error", "500 timeout"} =>
          body[r].kind = "error" /\ body[r].data = NoRec
    /\ resp[r] = "400" <=> pc[r] = "rejected"
    /\ out[r] = "err" => resp[r] \in {"500 error", "500 timeout"}

\* A response, once sent, is the response of the request for good.
ResponseSentOnce(r) == resp[r] # "none" => (resp'[r] = resp[r] /\ body'[r] = body[r])

\* C11: a request is answered once, with a record (200) or with an error
\* message only (400, 500); a request whose extraction failed or whose
\* deadline expired is never sent a record, not even when its orphaned run
\* assembles one later; and provided its timers fire, every request received
\* is answered.
C11_OneResponseNoPartialRecord ==
    /\ [](\A r \in Requests : ResponseWellFormed(r))
    /\ [][\A r \in Requests : ResponseSentOnce(r)]_vars
    /\ \A r \in Requests : (pc[r] # "idle") ~> (resp[r] # "none")

\* The deadline answered 500, the orphaned run went on to assemble a record
\* and return it, and the body sent is still the error.
C11_Witness ==
    \E r \in Requests :
        /\ resp[r] = "500 timeout" /\ body[r] = ErrorBody(TimeoutError("scrape", DefaultTimeoutMs))
        /\ pc[r] = "settled" /\ out[r] = "ok" /\ rec[r].att # 0

\* What withDeadline's promise has settled with is what settled first.
FirstSettles ==
    race.st = "racing" =>
        /\ race.res = Pending <=> (race.op = Pending /\ ~race.fired)
        /\ race.fired <=> race.clock >= race.ms
        /\ (race.op # Pending /\ race.opAt < race.ms) => race.res = race.op
        /\ (race.fired /\ (race.op = Pending \/ race.opAt >= race.ms)) =>
              race.res = Rejected(TimeoutError(race.label, race.ms))

\* C12: withDeadline settles with the operation's value or error when the
\* operation settles before ms, and otherwise with the timeout error that
\* carries the label and ms; once settled it does not change, whatever the
\* operation does afterwards.
C12_FirstToSettleWins ==
    /\ []FirstSettles
    /\ [][race.st = "racing" /\ race.res # Pending => race'.res = race.res]_vars

\* The timer won, and the operation, not cancelled, settled later: its
\* result is not the one of the call.
C12_Witness ==
    /\ race.st = "racing" /\ race.fired
    /\ race.op = Fulfilled /\ race.opAt >= race.ms
    /\ race.res = Rejected(TimeoutError(race.label, race.ms))

\* Request p waits in getBrowser for the launch in flight, in phase f of
\* newContextSafe.
WaitsForLaunch(p, f) == pc[p] = "awaitLaunch" /\ ph[p] = f

\* A step in which the wait of p ends while the launch it waited for is still
\* in flight: the timer of withDeadline(launching, 20000, 'Chromium launch')
\* has won.  In the try block the error is caught and the fallback waits for
\* the same launch under a second timer; in the fallback the error leaves
\* newContextSafe, fails the attempt and, on the last attempt, is the error
\* the caller is sent.
LaunchTimerWins(p) ==
    /\ pc[p] = "awaitLaunch" /\ bstate'[h[p]] = "launching"
    /\ (pc'[p] # pc[p] \/ ph'[p] # ph[p])

LaunchTimeoutOutcome(p) ==
    LaunchTimerWins(p) =>
        /\ ph[p] = "try" => WaitsForLaunch(p, "fb")' /\ h'[p] = h[p]
        /\ ph[p] = "fb" =>
              /\ ph'[p] = "none" /\ fails'[p] = fails[p] + 1
              /\ (Rethrow(attempt[p]) /\ resp[p] = "none") =>
                    /\ resp'[p] = "500 error"
                    /\ body'[p] = ErrorBody(TimeoutError("Chromium launch", LaunchTimeoutMs))

\* C13: a caller never waits for a launch beyond the launch timeout: each
\* wait ends, by the launch settling or by its timer, even when the launch
\* never settles; a timer that wins fails getBrowser with the error carrying
\* 'Chromium launch' and 20000; and one call of newContextSafe sees at most
\* two such timers, the second of which fails the call.
C13_LaunchNeverHangs ==
    /\ [][\A p \in Requests : LaunchTimeoutOutcome(p)]_vars
    /\ \A p \in Requests : \A f \in {"try", "fb"} :
          WaitsForLaunch(p, f) ~> ~WaitsForLaunch(p, f)

\* Both attempts ran into a launch that did not settle; the caller is sent
\* the launch-timeout error.
C13_Witness ==
    \E r \in Requests :
        /\ resp[r] = "500 error" /\ fails[r] = 2
        /\ body[r] = ErrorBody(TimeoutError("Chromium launch", LaunchTimeoutMs))

\* The title query of the page of request p failed: no such element, or the
\* query's own timeout.
TitleQueryFailed(p) == page[p][1] \in {"missing", "timeout"}

\* The extraction step of an attempt ends in one way only: the record is
\* assembled and the attempt goes on to close its context and return.
ExtractionCompletes(p) ==
    (pc[p] = "extract" /\ pc'[p] # "extract") =>
        /\ pc'[p] = "ctxClose"
        /\ fails'[p] = fails[p]
        /\ rec'[p].att = attempt[p] /\ rec'[p].isbn = isbn[p]

\* In the record an attempt has assembled, a title whose query failed is
\* absent unless the structured data supplied one, and is never empty.
FailedFieldIsAbsent(p) ==
    pc[p] = "ctxClose" =>
        /\ rec[p].title # <<>>
        /\ (TitleQueryFailed(p) /\ page[p][2] = "none") => rec[p].title = Null
        /\ (TitleQueryFailed(p) /\ page[p][2] = "name") => rec[p].title = <<"ld">>

\* C14: on a detail page, a field whose query finds no element or times out,
\* the title included, does not fail the attempt: the field is absent from
\* the record, which the attempt assembles and goes on to return.
C14_FieldFailureNotFatal ==
    /\ [](\A p \in Requests : FailedFieldIsAbsent(p))
    /\ [][\A p \in Requests : ExtractionCompletes(p)]_vars

\* The title query timed out, there is no structured data, and the request
\* was answered 200 on its first attempt with a record without a title.
C14_Witness ==
    /\ page[1] = <<"timeout", "none">>
    /\ resp[1] = "200" /\ fails[1] = 0
    /\ body[1].kind = "record" /\ body[1].data.title = Null

\* The browsers that were launched and have neither been closed nor crashed.
Alive == {b \in Browsers : bstate[b] = "alive"}

\* C15, as stated: at most one browser is alive, and a browser that is alive
\* is the one browserRef holds.
C15_SingleLiveBrowser ==
    /\ Cardinality(Alive) <= 1
    /\ \A b \in Alive : browserRef = b

\* The deadlines of the operations inside one extraction.
InnerDeadlines ==
    {LaunchTimeoutMs, NavTimeoutMs, ResultLinkTimeoutMs, HydrationTimeoutMs, FieldTimeoutMs}

\* C16, as stated: whatever the timeout parameter of an accepted request,
\* each inner deadline is shorter than the overall deadline of the request.
C16_InnerDeadlinesShorter ==
    \A r \in Requests :
        pc[r] \notin {"idle", "rejected"} => \A d \in InnerDeadlines : d < timeout[r]

NonNegative(x) == x.kind = "number" /\ (~x.neg \/ x.c = 0)
IsInteger(x) == x.kind = "number" /\ x.c % Scale = 0

\* C17, as stated: whatever the source text, averageRating is absent or a
\* finite non-negative number, and ratingCount and pageCount are absent or
\* non-negative integers.
C17_NumericFields ==
    output.fn = "numbers" =>
        /\ output.avgRating = Undefined \/ NonNegative(output.avgRating)
        /\ output.ratingCount = Undefined
              \/ (NonNegative(output.ratingCount) /\ IsInteger(output.ratingCount))
        /\ output.pageCount = Undefined
              \/ (NonNegative(output.pageCount) /\ IsInteger(output.pageCount))

\* C18, as stated: for every value s, clean(clean(s)) is clean(s).
C18_CleanIdempotent == output.fn = "clean" => output.twice = output.once

\* The three shapes of a date text: YYYY, YYYY-MM, YYYY-MM-DD.
YearShape(s) == s # Null /\ Len(s) = 4 /\ AllDigits(s)
YearMonthShape(s) ==
    /\ s # Null /\ Len(s) = 7
    /\ YearShape(SubSeq(s, 1, 4)) /\ s[5] = "-" /\ AllDigits(SubSeq(s, 6, 7))
YearMonthDayShape(s) ==
    /\ s # Null /\ Len(s) = 10
    /\ YearMonthShape(SubSeq(s, 1, 7)) /\ s[8] = "-" /\ AllDigits(SubSeq(s, 9, 10))
MonthNameSet == {monthNames[i] : i \in 1..Len(monthNames)}
DayTexts == {<<a>> : a \in Digits} \cup {<<a, b>> : a \in Digits \ {"0"}, b \in Digits}

\* C19, as stated: a year gives the year, a year and month give
\* "<Month name> <year>", a full date gives "<Month name> <day>, <year>" with
\* the day without leading zero, and anything else gives absent.
C19_DateFormatter ==
    output.fn = "fmtISO" =>
        IF YearShape(input) THEN output.text = input
        ELSE IF YearMonthShape(input)
        THEN \E name \in MonthNameSet : output.text = <<name, " ">> \o SubSeq(input, 1, 4)
        ELSE IF YearMonthDayShape(input)
        THEN \E name \in MonthNameSet, d \in DayTexts :
                output.text = <<name, " ">> \o d \o <<",", " ">> \o SubSeq(input, 1, 4)
        ELSE output.text = Null

\* The places of the Book-typed objects of the document, and the order of
\* the document on places: a parent before what it holds, then by position.
BookPaths(doc) == {Flat(doc)[i].path : i \in {j \in 1..Len(Flat(doc)) : HasBookType(Flat(doc)[j].o)}}
RECURSIVE Before(_, _)
Before(p, q) ==
    IF p = <<>> THEN TRUE
    ELSE IF q = <<>> THEN FALSE
    ELSE IF Head(p) # Head(q) THEN Head(p) < Head(q)
    ELSE Before(Tail(p), Tail(q))

\* C20, as stated: the book object is the first Book-typed object of the
\* document; an object of another type is never selected, a later Book never
\* wins over an earlier one, and an unparsable block is skipped.
C20_FirstBookWins ==
    output.fn = "ldBook" =>
        IF BookPaths(input) = {} THEN ~output.found
        ELSE /\ output.found
             /\ output.path \in BookPaths(input)
             /\ \A q \in BookPaths(input) : Before(output.path, q)

\* What the DOM and the structured data hold for the field, normalized.
Present(v) == v \notin {Null, <<>>}
DomValue(i) ==
    CASE i.field \in TextFields \cup {"description"} -> TextOf(i.dom)
      [] i.field = "language" -> (IF i.dom = Null THEN Null ELSE toText(i.dom))
      [] OTHER -> DomPublished(i.cands)
LdValue(i) ==
    IF i.field = "publishedfull" THEN LdPublished(i.date, i.ld) ELSE Clean(i.ld)
\* The value as the record carries it: a description without its marker.
Carried(i, v) == IF i.field = "description" THEN OrText(Trim(StripMore(v)), Null) ELSE v

\* C21: a field with a DOM source and a structured-data fallback carries the
\* DOM value whenever that is present and not empty, and the structured-data
\* value only when the DOM value is absent or empty.  For publishedFull the
\* DOM value is the entry the candidate policy selects, "First published"
\* notes excluded.
C21_DomWins ==
    output.fn = "merge" =>
        /\ Present(DomValue(input)) => output.value = Carried(input, DomValue(input))
        /\ (~Present(DomValue(input)) /\ Present(LdValue(input))) =>
              output.value = Carried(input, LdValue(input))
        /\ (Present(LdValue(input)) /\ output.value = LdValue(input)) =>
              ~Present(DomValue(input))

\* Both sources hold a publication text, and the record carries the DOM one.
C21_Witness ==
    /\ output.fn = "merge" /\ input.field = "publishedfull"
    /\ Present(DomValue(input)) /\ Present(LdValue(input))
    /\ output.value = DomValue(input)

\* C22: the task that opens the details panel runs beside the pipeline, its
\* promise never rejects and so never fails the attempt, and the await on it
\* ends when the task settles or 500 ms after it began, whichever is first,
\* wherever the task then is.
C22_GraceBoundsDetails ==
    race.st = "details" =>
        /\ race.result # "rejected" /\ race.pipe # "failed"
        /\ race.pipe = "grace" =>
              /\ race.result = "pending"
              /\ race.clock < race.t0 + GraceMs
        /\ race.pipe = "after" =>
              /\ race.at <= race.t0 + GraceMs
              /\ IF race.result # "pending" /\ race.doneAt <= race.t0 THEN race.at = race.t0
                 ELSE IF race.result # "pending" /\ race.doneAt < race.t0 + GraceMs
                 THEN race.at = race.doneAt
                 ELSE race.at = race.t0 + GraceMs

\* The grace period ended the wait while the task was still trying a button,
\* and the task is still at it later.
C22_Witness ==
    /\ race.st = "details" /\ race.pipe = "after" /\ race.at = race.t0 + GraceMs
    /\ race.result = "pending" /\ race.label >= 2 /\ race.clock > race.at

\* The number a raw timeout value stands for, NaN when it is not numeric.
Requested(q) == IF q \in {Absent, <<>>} THEN NaN ELSE ParseInt(q)

ToPublish ==
    IF race.st # "turn" THEN {}
    ELSE {race.q[i].b : i \in {j \in 1..Len(race.q) :
                                  race.q[j].k \in {"returned", "finallyOk", "publish"}}}

\* C24, as stated: the latch is not released before the launched handle is
\* published, so launching and browserRef are never both empty while a
\* launched browser waits to be published.
C24_LatchHeldUntilPublished ==
    ToPublish # {} => (launching # 0 \/ browserRef # 0)

\* C24, amended: getBrowser tests and installs the latch in one synchronous
\* run, so at most one launch is in flight; the latch is released one promise
\* job before the handle is published, and no call of getBrowser runs between
\* the two, so no launch starts while a launched browser waits to be
\* published.
C24_NoLaunchInWindow ==
    /\ [](Cardinality({b \in Browsers : bstate[b] = "launching"}) <= 1)
    /\ [](launching # 0 => bstate[launching] \in {"launching", "alive", "failed"}
                           /\ (bstate[launching] # "launching" => launching \in
                                 {race.q[i].b : i \in 1..Len(race.q)}))
    /\ [][ToPublish # {} => nextB' = nextB]_vars

\* The latch is released, the handle is not yet published, and two callers
\* wait for the launch.
C24_Witness ==
    /\ race.st = "turn" /\ ToPublish # {}
    /\ launching = 0 /\ browserRef = 0
    /\ \A p \in Requests : pc[p] = "awaitLaunch" /\ h[p] \in ToPublish

\* The 'disconnected' event of browser b is delivered in this step.
Delivered(b) == b \in sig /\ b \notin sig'

\* C25, as stated: a disconnect signal clears browserRef only when browserRef
\* holds the browser that disconnected; a late signal of a superseded browser
\* leaves the reference to a newer live browser alone.
C25_SignalClearsOwnReference ==
    [][\A b \in Browsers :
          (Delivered(b) /\ browserRef # b /\ browserRef # 0 /\ bstate[browserRef] = "alive")
              => browserRef' = browserRef]_vars

\* Request p, its first attempt failed, closes the shared handle in this
\* step; and the step in which it then clears browserRef.
Invalidates(p) == pc[p] # "catchBrClose" /\ pc'[p] = "catchBrClose"
Clears(p) == pc[p] = "catchBrClose" /\ pc'[p] = "retryDelay"

\* C26, as stated: the retry invalidation of a request closes only the
\* handle its failed attempt used, never one on which another request has an
\* open context, and clears no handle that was launched in the meantime.
C26_InvalidationIsLocal ==
    [][\A p \in Requests :
          /\ Invalidates(p) =>
                /\ \A b \in Browsers :
                      (bstate[b] = "alive" /\ bstate'[b] = "dead") => b \in {firstB[p], h[p]}
                /\ \A c \in openCtx : c.r # p => c \in openCtx'
          /\ Clears(p) => (browserRef' = browserRef \/ bstate[browserRef] # "alive")]_vars

\* The deadline of request r has expired and its error has been sent.
Orphaned(r) == resp[r] = "500 timeout"

\* The fallback of newContextSafe closes the shared handle in this step.
FallbackCloses(p) == pc[p] # "nscClose" /\ pc'[p] = "nscClose"

\* C27, as stated: the orphaned run of a request whose deadline has expired
\* starts no further attempt, closes no shared browser handle and does not
\* clear browserRef.
C27_OrphanLeavesSession ==
    [][\A r \in Requests :
          Orphaned(r) =>
              /\ attempt'[r] = attempt[r]
              /\ ~Invalidates(r) /\ ~FallbackCloses(r)
              /\ ~Clears(r)]_vars

\* C28, as stated: an attempt that has assembled its record and awaits the
\* final ctx.close() ends in one way only, whatever the close does: runScrape
\* returns that record; no retry, no failure, no invalidation of the session.
C28_AssembledRecordReturned ==
    [][\A p \in Requests :
          (pc[p] = "ctxClose" /\ pc'[p] # "ctxClose") =>
              /\ pc'[p] = "settled" /\ out'[p] = "ok"
              /\ rec'[p] = rec[p] /\ fails'[p] = fails[p]]_vars

\* C29, as stated: when the function of a warmup has ended, with success,
\* with a failed navigation or after its deadline expired, no context that
\* the warmup created is open.
C29_WarmupClosesContext ==
    \A p \in Requests : pc[p] = "settled" => ~HasOpenCtx(p)

\* C30, as stated: the launching latch never blocks recovery.  When the
\* launch deadline of getBrowser expires for a caller while the launch it
\* waits on has not settled, the acquisition that follows in the catch block
\* of newContextSafe starts a fresh launch; it does not wait on the same
\* launch again.
TimedOutOn(p) ==
    /\ pc[p] = "awaitLaunch" /\ ph[p] = "try"
    /\ bstate[h[p]] = "launching"
    /\ pc'[p] = "awaitLaunch" /\ ph'[p] = "fb"
    /\ bstate'[h[p]] = "launching"

C30_LatchNeverBlocksRecovery ==
    [][\A p \in Requests : TimedOutOn(p) => (h'[p] # h[p] /\ launching' # h[p])]_vars

\* C31, as stated: for an input that matches the ISO partial-date pattern and
\* has a month, the formatter returns absent or a text whose month part is
\* one of the twelve month names; a month outside 01..12 never yields a text
\* built from a missing month name.
C31_MonthPartIsMonthName ==
    (output.fn = "fmtISO" /\ MatchISO(input).ok /\ MatchISO(input).mm # Absent) =>
        (output.text = Null \/ output.text[1] \in MonthNameSet)

====
